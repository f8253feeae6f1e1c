---------------------------- MODULE IngestProofs ----------------------------
(* Theorems about Ingest, for every value of its constants.                *)
EXTENDS Ingest, Sums, SequenceTheorems

-----------------------------------------------------------------------------
(* Rows and lookups.                                                       *)

\* ORDER BY created_at DESC LIMIT 1 finds one of the rows, or none.
LEMMA LatestOf ==
  ASSUME NEW n \in Nat, NEW S \in SUBSET (1 .. n)
  PROVE  Latest(S) = 0 \/ Latest(S) \in S
BY MaxOf DEF Latest

\* A row is added at the end of a table.
LEMMA RowAdded ==
  ASSUME NEW S, NEW seq \in Seq(S), NEW x \in S
  PROVE  LET new == Append(seq, x) IN
         /\ new \in Seq(S) /\ Len(seq) \in Nat /\ Len(new) = Len(seq) + 1
         /\ DOMAIN seq = 1 .. Len(seq) /\ DOMAIN new = 1 .. Len(seq) + 1
         /\ \A i \in DOMAIN seq : new[i] = seq[i]
         /\ new[Len(seq) + 1] = x
<1> DEFINE new == Append(seq, x)
<1>1. /\ new \in Seq(S) /\ Len(new) = Len(seq) + 1
      /\ \A i \in 1 .. Len(seq) : new[i] = seq[i]
      /\ new[Len(seq) + 1] = x
  BY AppendProperties
<1>2. Len(seq) \in Nat /\ DOMAIN seq = 1 .. Len(seq)
  BY LenProperties
<1> HIDE DEF new
<1>3. DOMAIN new = 1 .. Len(new)
  BY <1>1, LenProperties
<1> QED
  BY <1>1, <1>2, <1>3 DEF new

\* A row is replaced in place.
LEMMA RowReplaced ==
  ASSUME NEW S, NEW seq \in Seq(S), NEW i \in DOMAIN seq, NEW x \in S
  PROVE  LET new == [seq EXCEPT ![i] = x] IN
         /\ new \in Seq(S) /\ Len(new) = Len(seq)
         /\ DOMAIN new = DOMAIN seq
         /\ \A j \in DOMAIN seq : new[j] = IF j = i THEN x ELSE seq[j]
<1>1. DOMAIN seq = 1 .. Len(seq)
  BY LenProperties
<1> QED
  BY <1>1, ExceptSeq

\* The tables, as functions.
LEMMA Tables ==
  ASSUME TypeOK
  PROVE  /\ Len(sales) \in Nat /\ DOMAIN sales = 1 .. Len(sales)
         /\ Len(request) \in Nat /\ DOMAIN request = 1 .. Len(request)
         /\ Len(docs) \in Nat /\ DOMAIN docs = 1 .. Len(docs)
         /\ \A s \in DOMAIN sales : sales[s] \in SaleRows
         /\ \A r \in DOMAIN request : request[r] \in RequestRows
         /\ \A i \in DOMAIN docs : docs[i] \in DocRows
BY LenProperties DEF TypeOK, RowsOK

\* What the lookups find is there, and as they ask for it.
LEMMA LookupsFind ==
  ASSUME TypeOK, NEW in \in Payload
  PROVE  LET lk == Lookups(in) IN
         /\ lk.byRef = NoSale \/ IsOpen(lk.byRef)
         /\ lk.stk = NoRequest \/
              (lk.stk \in DOMAIN request /\ request[lk.stk].amount = in.amount)
         /\ lk.byCustomer = NoSale \/ IsOpen(lk.byCustomer)
         /\ lk.byAmount = NoSale \/ (IsOpen(lk.byAmount) /\ sales[lk.byAmount].total = in.amount)
         /\ lk.refTotal = TotalOf(lk.byRef) /\ lk.customerTotal = TotalOf(lk.byCustomer)
         /\ lk.stkSale = IF lk.stk = NoRequest THEN NoSale ELSE request[lk.stk].sale
<1>1. OpenSaleByRef(in.ref) = NoSale \/ IsOpen(OpenSaleByRef(in.ref))
  BY DEF OpenSaleByRef
<1>2. LET r == PendingSTK(in.payer, in.amount)
      IN  r = NoRequest \/ (r \in DOMAIN request /\ request[r].amount = in.amount)
  <2> DEFINE S == {r \in DOMAIN request : /\ in.payer # NoPayer
                                          /\ request[r].status = "pending"
                                          /\ request[r].payer = in.payer
                                          /\ request[r].amount = in.amount
                                          /\ request[r].recent}
  <2>1. S \in SUBSET (1 .. Len(request)) /\ Len(request) \in Nat
    BY Tables
  <2>2. Latest(S) = 0 \/ Latest(S) \in S
    BY <2>1, LatestOf
  <2> QED
    BY <2>2 DEF PendingSTK, NoRequest
<1>3. LET s == OpenSaleByCustomer(in.payer) IN s = NoSale \/ IsOpen(s)
  <2> DEFINE S == {s \in DOMAIN sales : /\ in.payer # NoPayer
                                        /\ IsOpen(s)
                                        /\ sales[s].payer = in.payer
                                        /\ sales[s].recent}
  <2>1. S \in SUBSET (1 .. Len(sales)) /\ Len(sales) \in Nat
    BY Tables
  <2>2. Latest(S) = 0 \/ Latest(S) \in S
    BY <2>1, LatestOf
  <2> QED
    BY <2>2 DEF OpenSaleByCustomer, NoSale
<1>4. LET s == OpenSaleByAmount(in.amount) IN s = NoSale \/ (IsOpen(s) /\ sales[s].total = in.amount)
  <2> DEFINE S == {s \in DOMAIN sales : IsOpen(s) /\ sales[s].total = in.amount /\ sales[s].recent}
  <2>1. S \in SUBSET (1 .. Len(sales)) /\ Len(sales) \in Nat
    BY Tables
  <2>2. Latest(S) = 0 \/ Latest(S) \in S
    BY <2>1, LatestOf
  <2> QED
    BY <2>2 DEF OpenSaleByAmount, NoSale
<1> QED
  BY <1>1, <1>2, <1>3, <1>4 DEF Lookups

\* What Match decides: a sale it closes was open, or is the one a request-to-pay
\* was sent for; and the payment covers it.
LEMMA MatchOK ==
  ASSUME TypeOK, NEW in \in Payload
  PROVE  LET d == Match(in.amount, Lookups(in), AutoInvoice) IN
         /\ d \in Decisions /\ Decided(d) /\ d.rule # "manual"
         /\ d.sale \in 0 .. Len(sales) /\ d.stk \in 0 .. Len(request)
         /\ ~d.cash /\ d.status = "matched" =>
              \/ d.stk \in DOMAIN request /\ request[d.stk].amount = in.amount /\ d.sale = request[d.stk].sale
              \/ IsOpen(d.sale) /\ sales[d.sale].total =< in.amount
<1> DEFINE lk == Lookups(in)
           amount == in.amount
<1>1. /\ lk.byRef = NoSale \/ IsOpen(lk.byRef)
      /\ lk.stk = NoRequest \/
           (lk.stk \in DOMAIN request /\ request[lk.stk].amount = amount)
      /\ lk.byCustomer = NoSale \/ IsOpen(lk.byCustomer)
      /\ lk.byAmount = NoSale \/ (IsOpen(lk.byAmount) /\ sales[lk.byAmount].total = amount)
      /\ lk.refTotal = TotalOf(lk.byRef) /\ lk.customerTotal = TotalOf(lk.byCustomer)
      /\ lk.stkSale = IF lk.stk = NoRequest THEN NoSale ELSE request[lk.stk].sale
  BY LookupsFind
<1> HIDE DEF lk
<1>2. PICK d : d = Match(amount, lk, AutoInvoice)
  OBVIOUS
<1>3. amount \in Nat
  BY DEF Payload
<1>4. ASSUME NEW s, IsOpen(s) PROVE s \in 1 .. Len(sales) /\ s \in Nat /\ sales[s].total \in Nat /\ TotalOf(s) = sales[s].total
  BY <1>4, Tables DEF IsOpen, SaleRows, TotalOf
<1> HIDE DEF amount
<1> USE DEF NoSale, NoRequest
<1> DEFINE Goal == /\ d \in Decisions /\ Decided(d) /\ d.rule # "manual"
                   /\ d.sale \in 0 .. Len(sales) /\ d.stk \in 0 .. Len(request)
                   /\ ~d.cash /\ d.status = "matched" =>
                        \/ d.stk \in DOMAIN request /\ request[d.stk].amount = amount /\ d.sale = request[d.stk].sale
                        \/ IsOpen(d.sale) /\ sales[d.sale].total =< amount
<1> SUFFICES Goal
  BY <1>2 DEF lk, amount
<1>5. Len(sales) \in Nat /\ Len(request) \in Nat /\ DOMAIN request = 1 .. Len(request)
  BY Tables
<1>6. CASE lk.byRef # NoSale
  <2>1. d = [status |-> Cover(amount, sales[lk.byRef].total), rule |-> "bill_ref", sale |-> lk.byRef, stk |-> 0, cash |-> FALSE]
    BY <1>1, <1>2, <1>4, <1>6 DEF Match, Decision
  <2>2. IsOpen(lk.byRef)
    BY <1>1, <1>6
  <2> QED
    BY <1>3, <1>4, <1>5, <1>6, <2>1, <2>2 DEF Decisions, Decided, Cover, Statuses, Rules
<1>7. CASE lk.byRef = NoSale /\ lk.stk # NoRequest
  <2>1. lk.stk \in DOMAIN request /\ request[lk.stk].amount = amount /\ lk.stkSale = request[lk.stk].sale
    BY <1>1, <1>7
  <2>2. lk.stkSale \in 1 .. Len(sales)
    BY <2>1, Tables DEF TypeOK, RowsOK
  <2>3. d = [status |-> "matched", rule |-> "stk_window", sale |-> lk.stkSale, stk |-> lk.stk, cash |-> FALSE]
    BY <1>2, <1>5, <1>7, <2>2 DEF Match, Decision
  <2> QED
    BY <1>3, <1>5, <2>1, <2>2, <2>3 DEF Decisions, Decided, Statuses, Rules
<1>8. CASE lk.byRef = NoSale /\ lk.stk = NoRequest /\ lk.byCustomer # NoSale
  <2>1. d = [status |-> Cover(amount, sales[lk.byCustomer].total), rule |-> "counter_window", sale |-> lk.byCustomer, stk |-> 0, cash |-> FALSE]
    BY <1>1, <1>2, <1>4, <1>8 DEF Match, Decision
  <2>2. IsOpen(lk.byCustomer)
    BY <1>1, <1>8
  <2> QED
    BY <1>3, <1>4, <1>5, <1>8, <2>1, <2>2 DEF Decisions, Decided, Cover, Statuses, Rules
<1>9. CASE lk.byRef = NoSale /\ lk.stk = NoRequest /\ lk.byCustomer = NoSale /\ lk.byAmount # NoSale
  <2>1. d = [status |-> "matched", rule |-> "counter_window", sale |-> lk.byAmount, stk |-> 0, cash |-> FALSE]
    BY <1>2, <1>9 DEF Match, Decision
  <2>2. IsOpen(lk.byAmount) /\ sales[lk.byAmount].total = amount
    BY <1>1, <1>9
  <2> QED
    BY <1>3, <1>4, <1>5, <1>9, <2>1, <2>2 DEF Decisions, Decided, Statuses, Rules
<1>10. CASE lk.byRef = NoSale /\ lk.stk = NoRequest /\ lk.byCustomer = NoSale /\ lk.byAmount = NoSale
  <2>1. \/ d = [status |-> "cash_sale", rule |-> "auto_invoice", sale |-> 0, stk |-> 0, cash |-> TRUE]
        \/ d = [status |-> "unmatched", rule |-> "none", sale |-> 0, stk |-> 0, cash |-> FALSE]
    BY <1>2, <1>10 DEF Match, Decision
  <2>2. CASE d = [status |-> "cash_sale", rule |-> "auto_invoice", sale |-> 0, stk |-> 0, cash |-> TRUE]
    BY <1>5, <2>2 DEF Decisions, Decided, Statuses, Rules
  <2>3. CASE d = [status |-> "unmatched", rule |-> "none", sale |-> 0, stk |-> 0, cash |-> FALSE]
    BY <1>5, <2>3 DEF Decisions, Decided, Statuses, Rules
  <2> QED
    BY <2>1, <2>2, <2>3
<1> QED
  BY <1>6, <1>7, <1>8, <1>9, <1>10

-----------------------------------------------------------------------------
(* What a handler relies on.                                               *)

\* How the tables change under a handler that is not acting.
Onwards ==
    /\ Len(sales) =< Len(sales)' /\ Len(request) =< Len(request)'
    /\ Len(sales)' \in Nat /\ Len(request)' \in Nat
    /\ \A t \in Trans : event[t].mark # "none" => event'[t].mark # "none" /\ event'[t].in = event[t].in
    /\ \A t \in Trans : Recorded(t) =>
          Recorded(t)' /\ (payment'[t].sale = payment[t].sale \/ Invoiced(payment[t].sale)')
    /\ \A s \in Nat : Invoiced(s) => Invoiced(s)'

\* Nothing happens.
LEMMA NothingMoves ==
  ASSUME TypeOK, UNCHANGED <<event, tables>>
  PROVE  Onwards /\ RowsOK'
<1>1. Onwards
  BY Tables DEF Onwards, tables, Recorded, Invoiced, Invoices
<1>2. RowsOK'
  BY DEF TypeOK, RowsOK, tables
<1> QED
  BY <1>1, <1>2

\* What the handler read is still good.
LEMMA RecordKept ==
  ASSUME TypeOK, NEW q \in HandlerRecords, HandlerOK(q), Onwards
  PROVE  HandlerOK(q)'
<1> DEFINE d == q.dec
<1>1. Len(sales) \in Nat /\ Len(request) \in Nat
  BY Tables
<1>2. d.sale \in 0 .. Len(sales)' /\ d.stk \in 0 .. Len(request)'
  BY <1>1 DEF HandlerOK, Onwards
<1>3. OnEvent(q) => q.t \in Trans
  BY DEF HandlerOK, OnEvent
<1>4. OnEvent(q) => event'[q.t].mark # "none" /\ event'[q.t].in = event[q.t].in
  BY <1>3 DEF HandlerOK, Onwards
<1>5. q.pc = "applied" /\ event'[q.t].in.kind = "c2b_confirmation" => Recorded(q.t)'
  BY <1>3, <1>4 DEF HandlerOK, OnEvent, Onwards
<1>6. ASSUME NEW p \in q.seen PROVE Recorded(p)' /\ (payment'[p].sale = d.sale \/ Invoiced(payment[p].sale)')
  <2>1. p \in Trans /\ Recorded(p) /\ (payment[p].sale = d.sale \/ Invoiced(payment[p].sale))
    BY DEF HandlerRecords, HandlerOK
  <2>2. Recorded(p)' /\ (payment'[p].sale = payment[p].sale \/ Invoiced(payment[p].sale)')
    BY <2>1 DEF Onwards
  <2>3. PICK s \in Nat : s = payment[p].sale
    BY <2>1, <1>1 DEF TypeOK, RowsOK
  <2>4. Invoiced(s) => Invoiced(s)'
    BY DEF Onwards
  <2>5. Invoiced(payment[p].sale) /\ payment'[p].sale = s => Invoiced(payment[p].sale)'
    BY <2>3, <2>4 DEF Invoiced, Invoices
  <2> QED
    BY <2>1, <2>2, <2>3, <2>5
<1> QED
  BY <1>2, <1>4, <1>5, <1>6 DEF HandlerOK

\* The handlers that do not act keep what they rely on.
LEMMA HandlerMoves ==
  ASSUME TypeOK, HandlersOK, Onwards, NEW h \in Handlers, NEW q \in HandlerRecords, Becomes(h, q),
         HandlerOK(q)'
  PROVE  hd' \in [Handlers -> HandlerRecords] /\ HandlersOK'
<1>1. hd' \in [Handlers -> HandlerRecords]
  BY DEF Becomes, TypeOK
<1>2. ASSUME NEW g \in Handlers PROVE HandlerOK(hd[g])'
  <2>1. CASE g = h
    <3>1. hd'[g] = q
      BY <2>1 DEF Becomes, TypeOK
    <3> QED
      BY <3>1 DEF HandlerOK
  <2>2. CASE g # h
    <3>1. PICK p \in HandlerRecords : p = hd[g]
      BY DEF TypeOK
    <3>2. hd'[g] = p
      BY <2>2, <3>1 DEF Becomes, TypeOK
    <3>3. HandlerOK(p)'
      BY <3>1, RecordKept DEF HandlersOK
    <3> QED
      BY <3>2, <3>3 DEF HandlerOK
  <2> QED
    BY <2>1, <2>2
<1> QED
  BY <1>1, <1>2 DEF HandlersOK

\* So do all of them when none acts.
LEMMA HandlersWait ==
  ASSUME TypeOK, HandlersOK, Onwards, UNCHANGED hd
  PROVE  HandlersOK'
<1> SUFFICES ASSUME NEW g \in Handlers PROVE HandlerOK(hd[g])'
  BY DEF HandlersOK
<1>1. PICK p \in HandlerRecords : p = hd[g]
  BY DEF TypeOK
<1>2. HandlerOK(p)'
  BY <1>1, RecordKept DEF HandlersOK
<1> QED
  BY <1>1, <1>2 DEF HandlerOK

\* A handler moves on without writing.
LEMMA ReadsOnly ==
  ASSUME TypeOK, HandlersOK, NEW h \in Handlers, NEW q \in HandlerRecords, Becomes(h, q),
         UNCHANGED <<event, tables, gate>>, faults' \in 0 .. MaxFaults, ops' \in 0 .. MaxOps,
         HandlerOK(q)
  PROVE  TypeOK' /\ HandlersOK'
<1>1. Onwards /\ RowsOK'
  BY NothingMoves
<1>2. HandlerOK(q)'
  BY <1>1, RecordKept
<1>3. hd' \in [Handlers -> HandlerRecords] /\ HandlersOK'
  BY <1>1, <1>2, HandlerMoves
<1> QED
  BY <1>1, <1>3 DEF TypeOK

\* An idle handler relies on nothing.
LEMMA IdleOK ==
  ASSUME TypeOK
  PROVE  Idle \in HandlerRecords /\ HandlerOK(Idle)
<1>1. Idle = [pc |-> "idle", t |-> NoTrans, dec |-> NoDecision, draft |-> 0, total |-> 0, seen |-> {}]
  BY DEF Idle
<1>2. NoDecision = [status |-> "none", rule |-> "none", sale |-> 0, stk |-> 0, cash |-> FALSE]
  BY DEF NoDecision, Decision, NoSale, NoRequest
<1>3. NoDecision \in Decisions
  BY <1>2 DEF Decisions, Statuses, Rules
<1>4. Idle \in HandlerRecords
  BY <1>1, <1>3 DEF HandlerRecords, Pcs
<1>5. Len(sales) \in Nat /\ Len(request) \in Nat
  BY Tables
<1> QED
  BY <1>1, <1>2, <1>4, <1>5 DEF HandlerOK, OnEvent

\* A handler that stops and has written nothing.
LEMMA StopsOK ==
  ASSUME TypeOK, HandlersOK, NEW h \in Handlers,
         \/ StkDuplicate(h) \/ NoteError(h) \/ Dies(h) \/ ConvertRefused(h)
  PROVE  TypeOK' /\ HandlersOK'
<1>1. Becomes(h, Idle) /\ UNCHANGED <<event, tables, gate>>
  BY DEF StkDuplicate, NoteError, Dies, ConvertRefused
<1>2. faults' \in 0 .. MaxFaults /\ ops' \in 0 .. MaxOps
  BY IngestAssumption DEF StkDuplicate, NoteError, Dies, ConvertRefused, bounds, TypeOK
<1>3. PICK q : q = Idle
  OBVIOUS
<1>4. q \in HandlerRecords /\ HandlerOK(q)
  BY <1>3, IdleOK
<1> QED
  BY <1>1, <1>2, <1>3, <1>4, ReadsOnly

\* A handler that has read what it will act on.
LEMMA ProcessReads ==
  ASSUME TypeOK, HandlersOK, NEW h \in Handlers,
         \/ MatchPayment(h) \/ NextSaleRef(h) \/ ApplyRefused(h) \/ ApplyDuplicate(h) \/ TxFails(h)
  PROVE  TypeOK' /\ HandlersOK'
<1>0. PICK p \in HandlerRecords : p = hd[h]
  BY DEF TypeOK
<1>1. HandlerOK(p)
  BY <1>0 DEF HandlersOK
<1>2. /\ p.pc \in Pcs /\ p.t \in Trans \cup {NoTrans} /\ p.dec \in Decisions /\ p.draft \in Nat
      /\ p.total \in Nat /\ p.seen \in SUBSET Trans
  BY DEF HandlerRecords
<1>3. Len(sales) \in Nat /\ Len(request) \in Nat
  BY Tables
<1>4. CASE MatchPayment(h)
  <2>1. p.pc = "resolved" /\ p.t \in Trans /\ event[p.t].mark # "none" /\ p.seen = {}
    BY <1>0, <1>1, <1>4 DEF MatchPayment, HandlerOK, OnEvent
  <2>2. PICK in \in Payload : in = event[p.t].in
    BY <2>1 DEF TypeOK, RowsOK, EventRows
  <2>3. PICK d : d = Match(in.amount, Lookups(in), AutoInvoice)
    OBVIOUS
  <2>4. /\ d \in Decisions /\ Decided(d) /\ d.rule # "manual"
        /\ d.sale \in 0 .. Len(sales) /\ d.stk \in 0 .. Len(request)
    BY <2>3, MatchOK
  <2>10. PICK pc \in {"ref", "matched"} : pc = IF d.cash THEN "ref" ELSE "matched"
    OBVIOUS
  <2>5. PICK q : q = [p EXCEPT !.pc = pc, !.dec = d, !.total = in.amount]
    OBVIOUS
  <2>6. in.amount \in Nat
    BY DEF Payload
  <2>7. /\ q \in HandlerRecords /\ q.pc \in {"ref", "matched"} /\ q.dec = d /\ q.t = p.t /\ q.seen = {}
    BY <1>2, <2>1, <2>4, <2>5, <2>6 DEF HandlerRecords, Pcs
  <2>8. HandlerOK(q)
    BY <2>1, <2>4, <2>7 DEF HandlerOK, OnEvent
  <2>9. Becomes(h, q) /\ UNCHANGED <<event, tables, gate>> /\ faults' \in 0 .. MaxFaults /\ ops' \in 0 .. MaxOps
    <3> DEFINE I == event[hd[h].t].in
               D == Match(I.amount, Lookups(I), AutoInvoice)
    <3>3. Becomes(h, [hd[h] EXCEPT !.pc = IF D.cash THEN "ref" ELSE "matched", !.dec = D, !.total = I.amount])
      BY <1>4 DEF MatchPayment
    <3>4. I = in
      BY <1>0, <2>2
    <3> HIDE DEF I
    <3>5. D = d
      BY <2>3, <3>4
    <3> HIDE DEF D
    <3>1. Becomes(h, [hd[h] EXCEPT !.pc = pc, !.dec = d, !.total = in.amount])
      BY <2>10, <3>3, <3>4, <3>5
    <3>2. UNCHANGED <<event, tables, gate>> /\ faults' \in 0 .. MaxFaults /\ ops' \in 0 .. MaxOps
      BY <1>4 DEF MatchPayment, bounds, TypeOK
    <3> QED
      BY <1>0, <2>5, <3>1, <3>2
  <2> QED
    BY <2>7, <2>8, <2>9, ReadsOnly
<1>5. CASE NextSaleRef(h)
  <2>1. p.pc = "ref"
    BY <1>0, <1>5 DEF NextSaleRef
  <2>6. PICK pc \in {"convert", "matched"} : pc = IF p.dec.rule = "manual" THEN "convert" ELSE "matched"
    OBVIOUS
  <2>7. PICK n \in Nat : n = Len(sales) + 1
    BY <1>3
  <2>2. PICK q : q = [p EXCEPT !.pc = pc, !.draft = n]
    OBVIOUS
  <2>3. q \in HandlerRecords /\ q.pc = pc /\ q.dec = p.dec /\ q.t = p.t /\ q.seen = p.seen
    BY <1>2, <1>3, <2>2 DEF HandlerRecords, Pcs
  <2>4. HandlerOK(q)
    BY <1>1, <2>1, <2>3, <2>6 DEF HandlerOK, OnEvent
  <2>5. Becomes(h, q) /\ UNCHANGED <<event, tables, gate>> /\ faults' \in 0 .. MaxFaults /\ ops' \in 0 .. MaxOps
    BY <1>0, <1>5, <2>2, <2>6, <2>7 DEF NextSaleRef, bounds, TypeOK
  <2> QED
    BY <2>3, <2>4, <2>5, ReadsOnly
<1>6. CASE ApplyRefused(h) \/ TxFails(h)
  <2>1. p.pc \in {"resolved", "ref", "matched"} /\ (p.pc = "ref" => p.dec.rule # "manual")
    BY <1>0, <1>6 DEF ApplyRefused, TxFails
  <2>2. PICK q : q = [p EXCEPT !.pc = "failed"]
    OBVIOUS
  <2>3. q \in HandlerRecords /\ q.pc = "failed" /\ q.dec = p.dec /\ q.t = p.t /\ q.seen = p.seen
    BY <1>2, <2>2 DEF HandlerRecords, Pcs
  <2>4. HandlerOK(q)
    BY <1>1, <2>1, <2>3 DEF HandlerOK, OnEvent
  <2>5. Becomes(h, q) /\ UNCHANGED <<event, tables, gate>>
    BY <1>0, <1>6, <2>2 DEF ApplyRefused, TxFails
  <2>6. faults' \in 0 .. MaxFaults /\ ops' \in 0 .. MaxOps
    BY <1>6, IngestAssumption DEF ApplyRefused, TxFails, bounds, TypeOK
  <2> QED
    BY <2>3, <2>4, <2>5, <2>6, ReadsOnly
<1>7. CASE ApplyDuplicate(h)
  <2>1. p.pc = "matched" /\ Recorded(p.t)
    BY <1>0, <1>7 DEF ApplyDuplicate
  <2>2. PICK q : q = [p EXCEPT !.pc = "applied"]
    OBVIOUS
  <2>3. q \in HandlerRecords /\ q.pc = "applied" /\ q.dec = p.dec /\ q.t = p.t /\ q.seen = p.seen
    BY <1>2, <2>2 DEF HandlerRecords, Pcs
  <2>4. HandlerOK(q)
    BY <1>1, <2>1, <2>3 DEF HandlerOK, OnEvent
  <2>5. Becomes(h, q) /\ UNCHANGED <<event, tables, gate>> /\ faults' \in 0 .. MaxFaults /\ ops' \in 0 .. MaxOps
    BY <1>0, <1>7, <2>2 DEF ApplyDuplicate, bounds, TypeOK
  <2> QED
    BY <2>3, <2>4, <2>5, ReadsOnly
<1> QED
  BY <1>4, <1>5, <1>6, <1>7

\* A request that begins: a sweep's next event, or the merchant's.
LEMMA BeginsOK ==
  ASSUME TypeOK, HandlersOK, NEW h \in Handlers,
         \/ \E t \in Trans : ListUnprocessed(h, t)
         \/ Merchant(h)
  PROVE  TypeOK' /\ HandlersOK'
<1>0. NoDecision = [status |-> "none", rule |-> "none", sale |-> 0, stk |-> 0, cash |-> FALSE]
  BY DEF NoDecision, Decision, NoSale, NoRequest
<1>1. Len(sales) \in Nat /\ Len(request) \in Nat /\ DOMAIN sales = 1 .. Len(sales)
  BY Tables
<1>8. NoDecision \in Decisions
  BY <1>0 DEF Decisions, Statuses, Rules
<1>2. ASSUME NEW op, Operate(op) PROVE faults' \in 0 .. MaxFaults /\ ops' \in 0 .. MaxOps
  BY <1>2, IngestAssumption DEF Operate, TypeOK
<1>3. ASSUME NEW t \in Trans, ListUnprocessed(h, t) PROVE TypeOK' /\ HandlersOK'
  <2>1. PICK q : q = [Idle EXCEPT !.pc = "listed", !.t = t]
    OBVIOUS
  <2>2. q \in HandlerRecords /\ q.pc = "listed" /\ q.t = t /\ q.dec = NoDecision /\ q.seen = {}
    BY <1>8, <2>1 DEF HandlerRecords, Pcs, Idle
  <2>3. q.dec.sale = 0 /\ q.dec.stk = 0
    BY <1>0, <2>2
  <2>4. event[q.t].mark # "none"
    BY <1>3, <2>2 DEF ListUnprocessed
  <2>5. HandlerOK(q)
    BY <1>1, <2>2, <2>3, <2>4 DEF HandlerOK, OnEvent
  <2>6. Becomes(h, q) /\ UNCHANGED <<event, tables, gate>> /\ faults' \in 0 .. MaxFaults /\ ops' \in 0 .. MaxOps
    BY <1>3, <2>1 DEF ListUnprocessed, bounds, TypeOK
  <2> QED
    BY <2>2, <2>5, <2>6, ReadsOnly
<1>4. ASSUME NEW t \in Trans, NEW total \in Nat, NEW status \in {"cash_sale", "matched"}, Convert(h, t, total, status)
      PROVE  TypeOK' /\ HandlersOK'
  <2>1. PICK d : d = [status |-> status, rule |-> "manual", sale |-> 0, stk |-> 0, cash |-> TRUE]
    OBVIOUS
  <2>2. d \in Decisions
    BY <2>1 DEF Decisions, Statuses, Rules
  <2>3. PICK q : q = [Idle EXCEPT !.pc = "ref", !.t = t, !.total = total, !.dec = d]
    OBVIOUS
  <2>4. q \in HandlerRecords /\ q.pc = "ref" /\ q.t = t /\ q.dec = d /\ q.seen = {}
    BY <2>2, <2>3 DEF HandlerRecords, Pcs, Idle
  <2>5. HandlerOK(q)
    BY <1>1, <2>1, <2>4 DEF HandlerOK, OnEvent, Decided
  <2>6. Decision(status, "manual", NoSale, NoRequest, TRUE) = d
    BY <2>1 DEF Decision, NoSale, NoRequest
  <2>7. Becomes(h, q) /\ UNCHANGED <<event, tables, gate>> /\ faults' \in 0 .. MaxFaults /\ ops' \in 0 .. MaxOps
    BY <1>2, <1>4, <2>3, <2>6 DEF Convert
  <2> QED
    BY <2>4, <2>5, <2>7, ReadsOnly
<1>5. ASSUME NEW t \in Trans, NEW s \in DOMAIN sales, Link(h, t, s) PROVE TypeOK' /\ HandlersOK'
  <2>1. PICK d : d = [status |-> "matched", rule |-> "manual", sale |-> s, stk |-> 0, cash |-> FALSE]
    OBVIOUS
  <2>2. d \in Decisions
    BY <1>1, <2>1 DEF Decisions, Statuses, Rules
  <2>3. PICK q : q = [Idle EXCEPT !.pc = "convert", !.t = t, !.dec = d]
    OBVIOUS
  <2>4. q \in HandlerRecords /\ q.pc = "convert" /\ q.t = t /\ q.dec = d /\ q.seen = {}
    BY <2>2, <2>3 DEF HandlerRecords, Pcs, Idle
  <2>5. HandlerOK(q)
    BY <1>1, <2>1, <2>4 DEF HandlerOK, OnEvent, Decided, NoSale
  <2>6. Decision("matched", "manual", s, NoRequest, FALSE) = d
    BY <2>1 DEF Decision, NoRequest
  <2>7. Becomes(h, q) /\ UNCHANGED <<event, tables, gate>> /\ faults' \in 0 .. MaxFaults /\ ops' \in 0 .. MaxOps
    BY <1>2, <1>5, <2>3, <2>6 DEF Link
  <2> QED
    BY <2>4, <2>5, <2>7, ReadsOnly
<1>6. ASSUME NEW t \in Trans \cup {NoTrans}, NEW s \in DOMAIN sales, Settle(h, s, t) PROVE TypeOK' /\ HandlersOK'
  <2>0. PICK seen : seen = {p \in PaymentsOf(s) : payment[p].status = "partial"}
    OBVIOUS
  <2>1. PICK d : d = [status |-> "matched", rule |-> "manual", sale |-> s, stk |-> 0, cash |-> FALSE]
    OBVIOUS
  <2>2. d \in Decisions
    BY <1>1, <2>1 DEF Decisions, Statuses, Rules
  <2>3. PICK q : q = [Idle EXCEPT !.pc = "settle", !.t = t, !.seen = seen, !.dec = d]
    OBVIOUS
  <2>4. seen \in SUBSET Trans /\ \A p \in seen : Recorded(p) /\ payment[p].sale = s
    BY <2>0 DEF PaymentsOf
  <2>5. q \in HandlerRecords /\ q.pc = "settle" /\ q.dec = d /\ q.seen = seen
    BY <2>2, <2>3, <2>4 DEF HandlerRecords, Pcs, Idle
  <2>6. HandlerOK(q)
    BY <1>1, <2>1, <2>4, <2>5 DEF HandlerOK, OnEvent, Decided, NoSale
  <2>7. Decision("matched", "manual", s, NoRequest, FALSE) = d
    BY <2>1 DEF Decision, NoRequest
  <2>8. Becomes(h, q) /\ UNCHANGED <<event, tables, gate>> /\ faults' \in 0 .. MaxFaults /\ ops' \in 0 .. MaxOps
    BY <1>2, <1>6, <2>0, <2>3, <2>7 DEF Settle
  <2> QED
    BY <2>5, <2>6, <2>8, ReadsOnly
<1>7. ASSUME NEW t \in Trans PROVE event[t].in.amount \in Nat
  BY DEF TypeOK, RowsOK, EventRows, Payload
<1> QED
  BY <1>3, <1>4, <1>5, <1>6, <1>7, IngestAssumption DEF Merchant

\* The mark of an event moves on, or the event is stored: nobody else notices.
LEMMA EventMoves ==
  ASSUME TypeOK, UNCHANGED tables, NEW t \in Trans, NEW e \in EventRows,
         event' = [event EXCEPT ![t] = e], e.mark # "none",
         event[t].mark = "none" \/ e.in = event[t].in
  PROVE  Onwards /\ RowsOK'
<1>1. \A x \in Trans : event'[x] = IF x = t THEN e ELSE event[x]
  BY DEF TypeOK, RowsOK
<1>2. Onwards
  BY <1>1, Tables DEF Onwards, tables, Recorded, Invoiced, Invoices
<1>3. RowsOK'
  BY DEF TypeOK, RowsOK, tables
<1> QED
  BY <1>2, <1>3

\* IngestC2B stores an event that was not there.
LEMMA StoreOK ==
  ASSUME TypeOK, HandlersOK, NEW h \in Handlers, NEW t \in Trans, NEW raw \in {"c2b", "stk"},
         NEW in \in Payload, IngestC2B(h, t, raw, in)
  PROVE  TypeOK' /\ HandlersOK'
<1>1. PICK e : e = [mark |-> IF gate THEN "stored" ELSE "refused", raw |-> raw, in |-> in]
  OBVIOUS
<1>2. e \in EventRows /\ e.mark # "none"
  BY <1>1 DEF EventRows, Processed
<1>3. event' = [event EXCEPT ![t] = e] /\ UNCHANGED <<tables, gate, bounds>> /\ event[t].mark = "none"
  BY <1>1 DEF IngestC2B
<1>4. Onwards /\ RowsOK'
  BY <1>2, <1>3, EventMoves
<1>5. event'[t].mark # "none"
  BY <1>2, <1>3 DEF TypeOK, RowsOK
<1>6. hd' \in [Handlers -> HandlerRecords] /\ HandlersOK'
  <2>1. CASE gate
    <3>1. PICK q : q = [Idle EXCEPT !.pc = "resolved", !.t = t]
      OBVIOUS
    <3>2. Becomes(h, q)
      BY <2>1, <3>1 DEF IngestC2B
    <3>3. NoDecision = [status |-> "none", rule |-> "none", sale |-> 0, stk |-> 0, cash |-> FALSE]
      BY DEF NoDecision, Decision, NoSale, NoRequest
    <3>4. NoDecision \in Decisions
      BY <3>3 DEF Decisions, Statuses, Rules
    <3>5. q \in HandlerRecords /\ q.pc = "resolved" /\ q.t = t /\ q.dec = NoDecision /\ q.seen = {}
      BY <3>1, <3>4 DEF HandlerRecords, Pcs, Idle
    <3>6. q.dec.sale = 0 /\ q.dec.stk = 0
      BY <3>3, <3>5
    <3>7. Len(sales)' \in Nat /\ Len(request)' \in Nat
      BY <1>4 DEF Onwards
    <3>8. HandlerOK(q)'
      BY <1>5, <3>5, <3>6, <3>7 DEF HandlerOK, OnEvent
    <3> QED
      BY <1>4, <3>2, <3>5, <3>8, HandlerMoves
  <2>2. CASE ~gate
    <3>1. PICK q : q = Idle
      OBVIOUS
    <3>2. Becomes(h, q)
      BY <2>2, <3>1 DEF IngestC2B
    <3>3. q \in HandlerRecords /\ HandlerOK(q)
      BY <3>1, IdleOK
    <3>4. HandlerOK(q)'
      BY <1>4, <3>3, RecordKept
    <3> QED
      BY <1>4, <3>2, <3>3, <3>4, HandlerMoves
  <2> QED
    BY <2>1, <2>2
<1> QED
  BY <1>3, <1>4, <1>6 DEF TypeOK, bounds

\* What comes from Daraja, and the events whose mark a handler sets.
LEMMA EventsOK ==
  ASSUME TypeOK, HandlersOK, NEW h \in Handlers,
         \/ \E t \in Trans, in \in Payloads : Confirmation(h, t, in) \/ PullTransaction(h, t, in)
         \/ StkIngest(h) \/ MarkProcessed(h) \/ Reconcile(h)
  PROVE  TypeOK' /\ HandlersOK'
<1>0. PICK p \in HandlerRecords : p = hd[h]
  BY DEF TypeOK
<1>1. HandlerOK(p)
  BY <1>0 DEF HandlersOK
<1>2. ASSUME NEW t \in Trans, NEW in \in Payloads, Confirmation(h, t, in) \/ PullTransaction(h, t, in)
      PROVE  TypeOK' /\ HandlersOK'
  <2>1. in \in Payload
    BY IngestAssumption
  <2>2. IngestC2B(h, t, "c2b", in)
    BY <1>2 DEF Confirmation, PullTransaction
  <2> QED
    BY <2>1, <2>2, StoreOK
<1>3. CASE StkIngest(h)
  <2>1. p.pc = "stk" /\ p.t \in Trans /\ p.dec.stk \in 1 .. Len(request)
    BY <1>0, <1>1, <1>3, Tables DEF StkIngest, HandlerOK, NoRequest
  <2>2. PICK r \in RequestRows : r = request[p.dec.stk]
    BY <2>1, Tables
  <2>3. PICK in : in = [NoPayload EXCEPT !.amount = r.amount, !.payer = r.payer, !.ref = r.sale]
    OBVIOUS
  <2>4. in \in Payload
    BY <2>3 DEF NoPayload, Payload, RequestRows, NoSale
  <2>5. IngestC2B(h, p.t, "stk", in)
    BY <1>0, <1>3, <2>2, <2>3 DEF StkIngest
  <2> QED
    BY <2>1, <2>4, <2>5, StoreOK
<1>4. ASSUME NEW mark \in {"done", "refused"}, p.pc \in {"applied", "listed"},
             event' = [event EXCEPT ![p.t].mark = mark], Becomes(h, Idle), UNCHANGED <<tables, gate, bounds>>
      PROVE  TypeOK' /\ HandlersOK'
  <2>1. p.t \in Trans /\ event[p.t].mark # "none"
    BY <1>1, <1>4 DEF HandlerOK, OnEvent
  <2>2. PICK e : e = [event[p.t] EXCEPT !.mark = mark]
    OBVIOUS
  <2>3. e \in EventRows /\ e.mark = mark /\ e.in = event[p.t].in
    <3>1. PICK old \in EventRows : old = event[p.t]
      BY <2>1 DEF TypeOK, RowsOK
    <3>2. e = [old EXCEPT !.mark = mark]
      BY <2>2, <3>1
    <3>3. e \in EventRows
      BY <3>2 DEF EventRows, Processed
    <3> QED
      BY <3>1, <3>2, <3>3 DEF EventRows, Processed
  <2>4. event' = [event EXCEPT ![p.t] = e]
    BY <1>4, <2>2
  <2>5. Onwards /\ RowsOK'
    BY <1>4, <2>1, <2>3, <2>4, EventMoves
  <2>6. PICK q : q = Idle
    OBVIOUS
  <2>7. q \in HandlerRecords /\ HandlerOK(q) /\ Becomes(h, q)
    BY <1>4, <2>6, IdleOK
  <2>8. HandlerOK(q)'
    BY <2>5, <2>7, RecordKept
  <2>9. hd' \in [Handlers -> HandlerRecords] /\ HandlersOK'
    BY <2>5, <2>7, <2>8, HandlerMoves
  <2> QED
    BY <1>4, <2>5, <2>9 DEF TypeOK, bounds
<1>5. CASE MarkProcessed(h)
  BY <1>0, <1>4, <1>5 DEF MarkProcessed
<1>6. CASE Reconcile(h)
  <2>1. CASE Parses(hd[h].t) /\ gate
    <3>1. PICK q : q = [p EXCEPT !.pc = "resolved"]
      OBVIOUS
    <3>2. Becomes(h, q) /\ UNCHANGED <<event, tables, gate, bounds>> /\ p.pc = "listed"
      BY <1>0, <1>6, <2>1, <3>1 DEF Reconcile
    <3>3. q \in HandlerRecords /\ q.pc = "resolved" /\ q.dec = p.dec /\ q.t = p.t /\ q.seen = p.seen
      BY <3>1 DEF HandlerRecords, Pcs
    <3>4. HandlerOK(q)
      BY <1>1, <3>2, <3>3 DEF HandlerOK, OnEvent
    <3>5. faults' \in 0 .. MaxFaults /\ ops' \in 0 .. MaxOps
      BY <3>2 DEF TypeOK, bounds
    <3> QED
      BY <3>2, <3>3, <3>4, <3>5, ReadsOnly
  <2>2. CASE ~(Parses(hd[h].t) /\ gate)
    <3>1. /\ p.pc = "listed" /\ event' = [event EXCEPT ![p.t].mark = "refused"] /\ Becomes(h, Idle)
          /\ UNCHANGED <<tables, gate, bounds>>
      BY <1>0, <1>6, <2>2 DEF Reconcile
    <3> QED
      BY <1>4, <3>1
  <2> QED
    BY <2>1, <2>2
<1> QED
  BY <1>2, <1>3, <1>5, <1>6

\* The result of a request-to-pay is written on its row.
LEMMA StkResultOK ==
  ASSUME TypeOK, HandlersOK, NEW h \in Handlers, NEW r \in DOMAIN request, NEW success \in BOOLEAN,
         StkResult(h, r, success)
  PROVE  TypeOK' /\ HandlersOK'
<1>1. PICK x : x = [request[r] EXCEPT !.status = IF success THEN "success" ELSE "failed"]
  OBVIOUS
<1>2. request[r] \in RequestRows
  BY Tables
<1>3. x \in RequestRows /\ x.sale = request[r].sale
  BY <1>1, <1>2 DEF RequestRows
<1>4. request' = [request EXCEPT ![r] = x] /\ UNCHANGED <<event, payment, sales, docs, gate, bounds>>
  BY <1>1 DEF StkResult
<1>5. /\ request' \in Seq(RequestRows) /\ Len(request') = Len(request) /\ DOMAIN request' = DOMAIN request
      /\ \A y \in DOMAIN request : request'[y] = IF y = r THEN x ELSE request[y]
  BY <1>3, <1>4, RowReplaced DEF TypeOK, RowsOK
<1>6. Onwards
  BY <1>4, <1>5, Tables DEF Onwards, Recorded, Invoiced, Invoices
<1>7. RowsOK'
  BY <1>3, <1>4, <1>5 DEF TypeOK, RowsOK
<1>8. hd' \in [Handlers -> HandlerRecords] /\ HandlersOK'
  <2>1. CASE success
    <3>0. PICK t \in Trans : t = request[r].receipt
      BY <1>2 DEF RequestRows
    <3>1. PICK q : q = [Idle EXCEPT !.pc = "stk", !.t = t, !.dec.stk = r]
      OBVIOUS
    <3>2. Becomes(h, q)
      BY <2>1, <3>0, <3>1 DEF StkResult
    <3>3. NoDecision = [status |-> "none", rule |-> "none", sale |-> 0, stk |-> 0, cash |-> FALSE]
      BY DEF NoDecision, Decision, NoSale, NoRequest
    <3>4. NoDecision \in Decisions /\ r \in Nat
      BY <3>3, Tables DEF Decisions, Statuses, Rules
    <3>5. PICK d : d = [NoDecision EXCEPT !.stk = r]
      OBVIOUS
    <3>10. d \in Decisions /\ d.stk = r /\ d.sale = NoDecision.sale
      BY <3>4, <3>5 DEF Decisions
    <3>9. q = [pc |-> "stk", t |-> t, dec |-> [NoDecision EXCEPT !.stk = r], draft |-> 0, total |-> 0, seen |-> {}]
      BY <3>1 DEF Idle
    <3>6. q \in HandlerRecords /\ q.pc = "stk" /\ q.t = t /\ q.dec = d /\ q.seen = {}
      BY <3>5, <3>9, <3>10 DEF HandlerRecords, Pcs
    <3>7. d.sale = 0 /\ d.stk \in 1 .. Len(request') /\ Len(sales') \in Nat /\ Len(request') \in Nat
      BY <1>4, <1>5, <3>3, <3>10, Tables
    <3>8. HandlerOK(q)'
      BY <3>6, <3>7 DEF HandlerOK, OnEvent, NoRequest
    <3> QED
      BY <1>6, <3>2, <3>6, <3>8, HandlerMoves
  <2>2. CASE ~success
    <3>1. PICK q : q = Idle
      OBVIOUS
    <3>2. Becomes(h, q)
      BY <2>2, <3>1 DEF StkResult
    <3>3. q \in HandlerRecords /\ HandlerOK(q)
      BY <3>1, IdleOK
    <3>4. HandlerOK(q)'
      BY <1>6, <3>3, RecordKept
    <3> QED
      BY <1>6, <3>2, <3>3, <3>4, HandlerMoves
  <2> QED
    BY <2>1, <2>2
<1> QED
  BY <1>4, <1>7, <1>8 DEF TypeOK, bounds

-----------------------------------------------------------------------------
(* The transactions that write.                                            *)

\* MarkSalePaid closes its sale and touches no other, nor any total.
LEMMA SaleClosed ==
  ASSUME TypeOK, NEW s
  PROVE  LET new == MarkSalePaid(s) IN
         /\ new \in Seq(SaleRows) /\ Len(new) = Len(sales) /\ DOMAIN new = DOMAIN sales
         /\ \A x \in DOMAIN sales : /\ new[x].total = sales[x].total
                                    /\ x # s => new[x] = sales[x]
                                    /\ sales[x].status = "paid" => new[x] = sales[x]
         /\ s \in DOMAIN sales => new[s].status = "paid"
<1>1. CASE IsOpen(s)
  <2>1. PICK x : x = [sales[s] EXCEPT !.status = "paid"]
    OBVIOUS
  <2>2. s \in DOMAIN sales /\ sales[s] \in SaleRows /\ sales[s].status = "open"
    BY <1>1, Tables DEF IsOpen
  <2>3. x \in SaleRows /\ x.total = sales[s].total /\ x.status = "paid"
    BY <2>1, <2>2 DEF SaleRows
  <2>4. MarkSalePaid(s) = [sales EXCEPT ![s] = x]
    BY <1>1, <2>1 DEF MarkSalePaid
  <2>5. PICK new : new = [sales EXCEPT ![s] = x]
    OBVIOUS
  <2>6. /\ new \in Seq(SaleRows) /\ Len(new) = Len(sales) /\ DOMAIN new = DOMAIN sales
        /\ \A y \in DOMAIN sales : new[y] = IF y = s THEN x ELSE sales[y]
    BY <2>2, <2>3, <2>5, RowReplaced DEF TypeOK, RowsOK
  <2> QED
    BY <2>2, <2>3, <2>4, <2>5, <2>6
<1>2. CASE ~IsOpen(s)
  <2>1. MarkSalePaid(s) = sales
    BY <1>2 DEF MarkSalePaid
  <2>2. s \in DOMAIN sales => sales[s].status = "paid"
    BY <1>2, Tables DEF IsOpen, SaleRows
  <2> QED
    BY <2>1, <2>2 DEF TypeOK, RowsOK
<1> QED
  BY <1>1, <1>2

\* A sale that is new and paid.
LEMMA SaleMade ==
  ASSUME TypeOK, NEW total \in Nat
  PROVE  LET new == Append(sales, PaidSale(total)) IN
         /\ new \in Seq(SaleRows) /\ Len(new) = Len(sales) + 1 /\ DOMAIN new = 1 .. Len(sales) + 1
         /\ \A x \in DOMAIN sales : new[x] = sales[x]
         /\ new[Len(sales) + 1].status = "paid" /\ new[Len(sales) + 1].total = total
<1>1. PICK x : x = PaidSale(total)
  OBVIOUS
<1>2. x \in SaleRows /\ x.status = "paid" /\ x.total = total
  BY <1>1 DEF PaidSale, SaleRows
<1>3. PICK new : new = Append(sales, x)
  OBVIOUS
<1>4. /\ new \in Seq(SaleRows) /\ Len(new) = Len(sales) + 1 /\ DOMAIN new = 1 .. Len(sales) + 1
      /\ \A y \in DOMAIN sales : new[y] = sales[y]
      /\ new[Len(sales) + 1] = x
  BY <1>2, <1>3, RowAdded DEF TypeOK, RowsOK
<1> QED
  BY <1>1, <1>2, <1>3, <1>4

\* A document is added behind the others.
LEMMA DocAdded ==
  ASSUME TypeOK, NEW doc \in DocRows, docs' = Append(docs, doc)
  PROVE  /\ docs' \in Seq(DocRows) /\ Len(docs') = Len(docs) + 1
         /\ DOMAIN docs \subseteq DOMAIN docs'
         /\ \A i \in DOMAIN docs' : i \in DOMAIN docs \/ i = Len(docs) + 1
         /\ Len(docs) + 1 \in DOMAIN docs' /\ Len(docs) + 1 \notin DOMAIN docs
         /\ \A i \in DOMAIN docs : docs'[i] = docs[i]
         /\ docs'[Len(docs) + 1] = doc
         /\ \A s : Invoiced(s) => Invoiced(s)'
         /\ doc.kind = "INVOICE" => Invoiced(doc.sale)'
<1>1. /\ docs' \in Seq(DocRows) /\ Len(docs') = Len(docs) + 1 /\ Len(docs) \in Nat
      /\ DOMAIN docs = 1 .. Len(docs) /\ DOMAIN docs' = 1 .. Len(docs) + 1
      /\ \A i \in DOMAIN docs : docs'[i] = docs[i]
      /\ docs'[Len(docs) + 1] = doc
  BY RowAdded DEF TypeOK, RowsOK
<1>2. /\ DOMAIN docs \subseteq DOMAIN docs'
      /\ \A i \in DOMAIN docs' : i \in DOMAIN docs \/ i = Len(docs) + 1
      /\ Len(docs) + 1 \in DOMAIN docs' /\ Len(docs) + 1 \notin DOMAIN docs
  BY <1>1
<1>3. \A s : Invoiced(s) => Invoiced(s)'
  BY <1>1, <1>2 DEF Invoiced, Invoices
<1>4. doc.kind = "INVOICE" => Invoiced(doc.sale)'
  BY <1>1, <1>2 DEF Invoiced, Invoices
<1> QED
  BY <1>1, <1>2, <1>3, <1>4

\* The document CreateInvoiceForSale makes.
LEMMA InvoiceMade ==
  ASSUME NEW s \in Nat, NEW t \in Trans \cup {NoTrans}
  PROVE  \E doc \in DocRows :
            /\ CreateInvoiceForSale(s, t) = Append(docs, doc)
            /\ doc.kind = "INVOICE" /\ doc.sale = s /\ doc.pay = t /\ doc.parent = 0
<1>1. PICK doc : doc = [kind |-> "INVOICE", sale |-> s, pay |-> t, parent |-> 0, acked |-> FALSE]
  OBVIOUS
<1>2. doc \in DocRows /\ doc.kind = "INVOICE" /\ doc.sale = s /\ doc.pay = t /\ doc.parent = 0
  BY <1>1 DEF DocRows
<1>3. CreateInvoiceForSale(s, t) = Append(docs, doc)
  BY <1>1 DEF CreateInvoiceForSale
<1> QED
  BY <1>2, <1>3

\* A transaction that adds at most one document, for a sale that is there, and
\* no payment loses its row, nor its sale but for one that is invoiced.
LEMMA WritesOK ==
  ASSUME TypeOK, UNCHANGED event,
         sales' \in Seq(SaleRows), Len(sales) =< Len(sales'),
         request' \in Seq(RequestRows), Len(request) =< Len(request'),
         \A r \in DOMAIN request' : request'[r].sale \in 1 .. Len(sales'),
         \/ UNCHANGED docs
         \/ \E doc \in DocRows : /\ docs' = Append(docs, doc)
                                 /\ doc.sale \in 1 .. Len(sales') /\ doc.parent \in 0 .. Len(docs),
         payment' \in [Trans -> [status : Statuses, rule : Rules, sale : 0 .. Len(sales')]],
         \A t \in Trans : Recorded(t) =>
            payment'[t].status # "none" /\ (payment'[t].sale = payment[t].sale \/ Invoiced(payment[t].sale)')
  PROVE  RowsOK' /\ Onwards
<1>1. /\ Len(sales) \in Nat /\ Len(request) \in Nat /\ DOMAIN sales = 1 .. Len(sales)
      /\ Len(docs) \in Nat /\ DOMAIN docs = 1 .. Len(docs)
  BY Tables
<1>2. Len(sales') \in Nat /\ DOMAIN sales' = 1 .. Len(sales') /\ Len(request') \in Nat
  BY LenProperties
<1>3. /\ docs' \in Seq(DocRows)
      /\ \A i \in DOMAIN docs' : docs'[i].sale \in DOMAIN sales' /\ docs'[i].parent \in 0 .. i - 1
      /\ \A s : Invoiced(s) => Invoiced(s)'
  <2>0. \A i \in DOMAIN docs : docs[i].sale \in DOMAIN sales' /\ docs[i].parent \in 0 .. i - 1
    BY <1>1, <1>2 DEF TypeOK, RowsOK
  <2>1. CASE UNCHANGED docs
    BY <2>0, <2>1 DEF TypeOK, RowsOK, Invoiced, Invoices
  <2>2. ASSUME NEW doc \in DocRows, docs' = Append(docs, doc), doc.sale \in 1 .. Len(sales'),
               doc.parent \in 0 .. Len(docs)
        PROVE  /\ docs' \in Seq(DocRows)
               /\ \A i \in DOMAIN docs' : docs'[i].sale \in DOMAIN sales' /\ docs'[i].parent \in 0 .. i - 1
               /\ \A s : Invoiced(s) => Invoiced(s)'
    <3>1. /\ docs' \in Seq(DocRows) 
          /\ \A i \in DOMAIN docs' : i \in DOMAIN docs \/ i = Len(docs) + 1
          /\ \A i \in DOMAIN docs : docs'[i] = docs[i]
          /\ docs'[Len(docs) + 1] = doc
          /\ \A s : Invoiced(s) => Invoiced(s)'
      BY <2>2, DocAdded
    <3>3. PICK n \in Nat : n = Len(docs)
      BY <1>1
    <3>4. (n + 1) - 1 = n
      OBVIOUS
    <3>2. doc.sale \in DOMAIN sales' /\ doc.parent \in 0 .. (Len(docs) + 1) - 1
      BY <1>2, <2>2, <3>3, <3>4
    <3> QED
      BY <2>0, <3>1, <3>2
  <2> QED
    BY <2>1, <2>2
<1>4. RowsOK'
  BY <1>2, <1>3 DEF TypeOK, RowsOK
<1>5. Onwards
  BY <1>1, <1>2, <1>3 DEF Onwards, Recorded
<1> QED
  BY <1>4, <1>5

\* A transaction closes a sale that was there, or makes one that is closed.
LEMMA Closes ==
  ASSUME TypeOK, NEW s, NEW total \in Nat,
         \/ s \in DOMAIN sales /\ sales' = MarkSalePaid(s)
         \/ s = Len(sales) + 1 /\ sales' = Append(sales, PaidSale(total))
  PROVE  /\ sales' \in Seq(SaleRows) /\ Len(sales) =< Len(sales')
         /\ DOMAIN sales \subseteq DOMAIN sales'
         /\ \A x \in DOMAIN sales' : x \in DOMAIN sales \/ x = s
         /\ \A x \in DOMAIN sales : /\ sales'[x].total = sales[x].total
                                    /\ x # s => sales'[x] = sales[x]
                                    /\ sales[x].status = "paid" => sales'[x] = sales[x]
         /\ s \in DOMAIN sales' /\ s \in 1 .. Len(sales') /\ sales'[s].status = "paid"
         /\ s \notin DOMAIN sales => sales'[s].total = total
<1>0. Len(sales) \in Nat /\ DOMAIN sales = 1 .. Len(sales)
  BY Tables
<1>1. CASE s \in DOMAIN sales /\ sales' = MarkSalePaid(s)
  <2>1. /\ sales' \in Seq(SaleRows) /\ Len(sales') = Len(sales) /\ DOMAIN sales' = DOMAIN sales
        /\ \A x \in DOMAIN sales : /\ sales'[x].total = sales[x].total
                                   /\ x # s => sales'[x] = sales[x]
                                   /\ sales[x].status = "paid" => sales'[x] = sales[x]
        /\ sales'[s].status = "paid"
    BY <1>1, SaleClosed
  <2>3. PICK n \in Nat : n = Len(sales)
    BY <1>0
  <2>4. Len(sales') = n /\ s \in 1 .. n
    BY <1>0, <1>1, <2>1, <2>3
  <2>2. Len(sales) =< Len(sales') /\ s \in 1 .. Len(sales')
    BY <2>3, <2>4
  <2> QED
    BY <1>1, <2>1, <2>2
<1>2. CASE s = Len(sales) + 1 /\ sales' = Append(sales, PaidSale(total))
  <2>1. /\ sales' \in Seq(SaleRows) /\ Len(sales') = Len(sales) + 1 /\ DOMAIN sales' = 1 .. Len(sales) + 1
        /\ \A x \in DOMAIN sales : sales'[x] = sales[x]
        /\ sales'[s].status = "paid" /\ sales'[s].total = total
    BY <1>2, SaleMade
  <2>2. \A x \in DOMAIN sales : x # s
    BY <1>0, <1>2
  <2>3. s \in 1 .. Len(sales') /\ Len(sales) =< Len(sales') /\ \A x \in DOMAIN sales' : x \in DOMAIN sales \/ x = s
    BY <1>0, <1>2, <2>1
  <2>4. DOMAIN sales \subseteq DOMAIN sales' /\ s \in DOMAIN sales'
    BY <1>0, <1>2, <2>1
  <2> QED
    BY <2>1, <2>2, <2>3, <2>4
<1> QED
  BY <1>1, <1>2

\* The sale a handler is about to write to.
SaleOf(q) == IF q.dec.cash THEN q.draft ELSE q.dec.sale

\* What applyPayment writes: a decision to pay closes a sale and makes its
\* invoice, any other leaves the sales and the documents as they are.
LEMMA Applies ==
  ASSUME TypeOK, HandlersOK, NEW h \in Handlers, NEW q, q = hd[h], NEW s, s = SaleOf(q), ApplyPayment(h)
  PROVE  /\ q.pc = "matched" /\ q.t \in Trans /\ q.total \in Nat /\ ~Recorded(q.t)
         /\ Decided(q.dec) /\ q.dec.rule # "manual" /\ event[q.t].mark # "none"
         /\ q.dec \in Decisions
         /\ IF q.dec.status \in {"matched", "cash_sale"}
            THEN /\ \/ s \in DOMAIN sales /\ ~q.dec.cash /\ sales' = MarkSalePaid(s)
                    \/ s = Len(sales) + 1 /\ q.dec.cash /\ sales' = Append(sales, PaidSale(q.total))
                 /\ docs' = CreateInvoiceForSale(s, q.t)
            ELSE /\ sales' = sales /\ docs' = docs /\ s \in 0 .. Len(sales) /\ ~q.dec.cash
         /\ payment' = [payment EXCEPT ![q.t] = [status |-> q.dec.status, rule |-> q.dec.rule, sale |-> s]]
<1>1. q \in HandlerRecords /\ HandlerOK(q)
  BY DEF TypeOK, HandlersOK
<1>2. /\ q.pc = "matched" /\ ~RefTaken(h) /\ ~Recorded(q.t)
      /\ payment' = [payment EXCEPT ![q.t] = [status |-> q.dec.status, rule |-> q.dec.rule, sale |-> s]]
      /\ sales' = PaidSales(h)
      /\ docs' = IF s = NoSale \/ q.dec.status = "partial" THEN docs ELSE CreateInvoiceForSale(s, q.t)
  BY DEF ApplyPayment, Refused, SaleOf
<1>3. /\ q.t \in Trans /\ Decided(q.dec) /\ q.dec.rule # "manual" /\ event[q.t].mark # "none"
      /\ q.dec.sale \in 0 .. Len(sales)
  BY <1>1, <1>2 DEF HandlerOK, OnEvent
<1>4. q.total \in Nat /\ q.dec \in Decisions /\ q.dec.cash \in BOOLEAN
  BY <1>1 DEF HandlerRecords, Decisions
<1>5. Len(sales) \in Nat /\ DOMAIN sales = 1 .. Len(sales)
  BY Tables
<1>6. CASE q.dec.cash
  <2>1. s = Len(sales) + 1 /\ q.dec.status \in {"matched", "cash_sale"}
    BY <1>2, <1>3, <1>6 DEF RefTaken, SaleOf, Decided
  <2>2. sales' = Append(sales, PaidSale(q.total))
    BY <1>2, <1>6 DEF PaidSales
  <2>3. docs' = CreateInvoiceForSale(s, q.t)
    BY <1>2, <1>5, <2>1 DEF NoSale
  <2> QED
    BY <1>2, <1>3, <1>4, <1>6, <2>1, <2>2, <2>3
<1>7. CASE ~q.dec.cash /\ q.dec.status = "matched"
  <2>1. s = q.dec.sale /\ s # 0
    BY <1>3, <1>7 DEF SaleOf, Decided, NoSale
  <2>2. s \in DOMAIN sales
    BY <1>3, <1>5, <2>1
  <2>3. sales' = MarkSalePaid(s)
    BY <1>2, <1>7, <2>1 DEF PaidSales
  <2>4. docs' = CreateInvoiceForSale(s, q.t)
    BY <1>2, <1>7, <2>1 DEF NoSale
  <2> QED
    BY <1>2, <1>3, <1>4, <1>7, <2>2, <2>3, <2>4
<1>8. CASE ~q.dec.cash /\ q.dec.status # "matched"
  <2>1. s = q.dec.sale /\ q.dec.status \in {"unmatched", "partial"}
    BY <1>3, <1>8 DEF SaleOf, Decided
  <2>2. docs' = docs
    BY <1>2, <1>3, <2>1 DEF Decided
  <2>3. sales' = sales
    BY <1>2, <1>8 DEF PaidSales
  <2> QED
    BY <1>2, <1>3, <1>4, <1>8, <2>1, <2>2, <2>3
<1> QED
  BY <1>6, <1>7, <1>8

\* Applying a payment keeps the tables and the handlers as they should be.
LEMMA ApplyPaymentOK ==
  ASSUME TypeOK, HandlersOK, NEW h \in Handlers, ApplyPayment(h)
  PROVE  TypeOK' /\ HandlersOK'
<1>0. PICK q \in HandlerRecords : q = hd[h]
  BY DEF TypeOK
<1>1. PICK s : s = SaleOf(q)
  OBVIOUS
<1>2. /\ q.pc = "matched" /\ q.t \in Trans /\ q.total \in Nat /\ ~Recorded(q.t)
      /\ Decided(q.dec) /\ q.dec.rule # "manual" /\ event[q.t].mark # "none"
      /\ q.dec \in Decisions
      /\ IF q.dec.status \in {"matched", "cash_sale"}
         THEN /\ \/ s \in DOMAIN sales /\ ~q.dec.cash /\ sales' = MarkSalePaid(s)
                 \/ s = Len(sales) + 1 /\ q.dec.cash /\ sales' = Append(sales, PaidSale(q.total))
              /\ docs' = CreateInvoiceForSale(s, q.t)
         ELSE /\ sales' = sales /\ docs' = docs /\ s \in 0 .. Len(sales) /\ ~q.dec.cash
      /\ payment' = [payment EXCEPT ![q.t] = [status |-> q.dec.status, rule |-> q.dec.rule, sale |-> s]]
  BY <1>0, <1>1, Applies
<1>3. Len(sales) \in Nat /\ DOMAIN sales = 1 .. Len(sales) /\ Len(docs) \in Nat
  BY Tables
<1>4. /\ sales' \in Seq(SaleRows) /\ Len(sales) =< Len(sales') /\ s \in 0 .. Len(sales')
      /\ \/ UNCHANGED docs
         \/ \E doc \in DocRows : /\ docs' = Append(docs, doc)
                                 /\ doc.sale \in 1 .. Len(sales') /\ doc.parent \in 0 .. Len(docs)
  <2>1. CASE q.dec.status \in {"matched", "cash_sale"}
    <3>1. sales' \in Seq(SaleRows) /\ Len(sales) =< Len(sales') /\ s \in 1 .. Len(sales')
      BY <1>2, <2>1, Closes
    <3>2. s \in Nat
      BY <1>2, <1>3, <2>1
    <3>3. PICK doc \in DocRows : docs' = Append(docs, doc) /\ doc.sale = s /\ doc.parent = 0
      BY <1>2, <2>1, <3>2, InvoiceMade
    <3>4. doc.parent \in 0 .. Len(docs)
      BY <1>3, <3>3
    <3> QED
      BY <3>1, <3>3, <3>4
  <2>2. CASE q.dec.status \notin {"matched", "cash_sale"}
    BY <1>2, <1>3, <2>2 DEF TypeOK, RowsOK
  <2> QED
    BY <2>1, <2>2
<1>5. /\ request' \in Seq(RequestRows) /\ Len(request') = Len(request)
      /\ \A r \in DOMAIN request' : request'[r].sale \in 1 .. Len(sales')
  <2>0. DOMAIN request = 1 .. Len(request) /\ Len(request) \in Nat /\ q.dec.stk \in 0 .. Len(request)
    BY <1>0, Tables DEF HandlersOK, HandlerOK
  <2>1. \A r \in DOMAIN request : request[r].sale \in 1 .. Len(sales')
    <3>1. \A r \in DOMAIN request : request[r].sale \in 1 .. Len(sales)
      BY <1>3 DEF TypeOK, RowsOK
    <3>2. Len(sales') \in Nat
      BY <1>4, LenProperties
    <3> QED
      BY <1>3, <1>4, <3>1, <3>2
  <2>2. CASE q.dec.stk = NoRequest
    <3>1. request' = request
      BY <1>0, <2>2 DEF ApplyPayment
    <3> QED
      BY <2>1, <3>1 DEF TypeOK, RowsOK
  <2>3. CASE q.dec.stk # NoRequest
    <3>1. q.dec.stk \in DOMAIN request
      BY <2>0, <2>3 DEF NoRequest
    <3>2. PICK x : x = [request[q.dec.stk] EXCEPT !.status = "success"]
      OBVIOUS
    <3>3. x \in RequestRows /\ x.sale = request[q.dec.stk].sale
      BY <3>1, <3>2, Tables DEF RequestRows
    <3>4. request' = [request EXCEPT ![q.dec.stk] = x]
      BY <1>0, <2>3, <3>2 DEF ApplyPayment
    <3>5. /\ request' \in Seq(RequestRows) /\ Len(request') = Len(request) /\ DOMAIN request' = DOMAIN request
          /\ \A y \in DOMAIN request : request'[y] = IF y = q.dec.stk THEN x ELSE request[y]
      BY <3>1, <3>3, <3>4, RowReplaced DEF TypeOK, RowsOK
    <3> QED
      BY <2>1, <3>1, <3>3, <3>5
  <2> QED
    BY <2>2, <2>3
<1>6. PICK pay : pay = [status |-> q.dec.status, rule |-> q.dec.rule, sale |-> s]
  OBVIOUS
<1>7. pay \in [status : Statuses, rule : Rules, sale : 0 .. Len(sales')] /\ pay.status # "none" /\ pay.sale = s
  BY <1>2, <1>4, <1>6 DEF Decisions, Decided
<1>8. \A t \in Trans : payment[t].sale \in 0 .. Len(sales')
  <2>1. \A t \in Trans : payment[t].sale \in 0 .. Len(sales)
    BY DEF TypeOK, RowsOK
  <2>2. Len(sales') \in Nat
    BY <1>4, LenProperties
  <2> QED
    BY <1>3, <1>4, <2>1, <2>2
<1>9. payment' \in [Trans -> [status : Statuses, rule : Rules, sale : 0 .. Len(sales')]]
  <2>1. \A t \in Trans : payment[t] \in [status : Statuses, rule : Rules, sale : 0 .. Len(sales')]
    BY <1>8 DEF TypeOK, RowsOK
  <2>2. DOMAIN payment = Trans
    BY DEF TypeOK, RowsOK
  <2> QED
    BY <1>2, <1>6, <1>7, <2>1, <2>2 DEF TypeOK, RowsOK
<1>10. /\ \A t \in Trans : t # q.t => payment'[t] = payment[t]
       /\ payment'[q.t] = pay
  BY <1>2, <1>6 DEF TypeOK, RowsOK
<1>11. UNCHANGED <<event, gate, bounds>>
  BY DEF ApplyPayment
<1>12. \A t \in Trans : Recorded(t) => payment'[t].status # "none" /\ payment'[t].sale = payment[t].sale
  BY <1>2, <1>10 DEF Recorded
<1>13. RowsOK' /\ Onwards
  BY <1>4, <1>5, <1>9, <1>11, <1>12, WritesOK
<1>14. PICK p : p = [q EXCEPT !.pc = "applied"]
  OBVIOUS
<1>15. /\ p \in HandlerRecords /\ p.pc = "applied" /\ p.t = q.t /\ p.dec = q.dec /\ p.seen = q.seen
  BY <1>14 DEF HandlerRecords, Pcs
<1>16. HandlerOK(q)'
  BY <1>0, <1>13, RecordKept DEF HandlersOK
<1>17. HandlerOK(p)'
  BY <1>2, <1>7, <1>10, <1>15, <1>16 DEF HandlerOK, OnEvent, Recorded
<1>18. Becomes(h, p)
  BY <1>0, <1>14 DEF ApplyPayment
<1>19. hd' \in [Handlers -> HandlerRecords] /\ HandlersOK'
  BY <1>13, <1>15, <1>17, <1>18, HandlerMoves
<1> QED
  BY <1>11, <1>13, <1>19 DEF TypeOK, bounds

\* What a conversion or a settlement writes: the sale is closed, its invoice made.
LEMMA Converts ==
  ASSUME TypeOK, HandlersOK, NEW h \in Handlers, NEW q, q = hd[h], NEW s, s = SaleOf(q),
         ConvertCommit(h) \/ SettleCommit(h)
  PROVE  /\ q.t \in Trans \cup {NoTrans} /\ q.total \in Nat /\ q.dec \in Decisions
         /\ q.dec.status \in {"matched", "cash_sale"}
         /\ \/ s \in DOMAIN sales /\ ~q.dec.cash /\ sales' = MarkSalePaid(s)
            \/ s = Len(sales) + 1 /\ q.dec.cash /\ sales' = Append(sales, PaidSale(q.total))
         /\ docs' = CreateInvoiceForSale(s, q.t)
<1>1. q \in HandlerRecords /\ HandlerOK(q)
  BY DEF TypeOK, HandlersOK
<1>2. q.t \in Trans \cup {NoTrans} /\ q.total \in Nat /\ q.dec \in Decisions /\ q.dec.cash \in BOOLEAN
  BY <1>1 DEF HandlerRecords, Decisions
<1>3. /\ q.pc \in {"convert", "settle"} /\ Decided(q.dec) /\ q.dec.status \in {"matched", "cash_sale"}
      /\ q.dec.sale \in 0 .. Len(sales)
      /\ q.pc = "settle" => ~q.dec.cash
  BY <1>1 DEF ConvertCommit, SettleCommit, HandlerOK
<1>4. ~q.dec.cash => s = q.dec.sale /\ s \in DOMAIN sales
  BY <1>2, <1>3, Tables DEF Decided, SaleOf, NoSale
<1>5. CASE ConvertCommit(h)
  <2>1. docs' = CreateInvoiceForSale(s, q.t)
    BY <1>5 DEF ConvertCommit, SaleOf
  <2>2. CASE q.dec.cash
    <3>1. s = Len(sales) + 1 /\ sales' = Append(sales, PaidSale(q.total))
      BY <1>5, <2>2 DEF ConvertCommit, RefTaken, SaleOf
    <3> QED
      BY <1>2, <1>3, <2>1, <2>2, <3>1
  <2>3. CASE ~q.dec.cash
    <3>1. sales' = MarkSalePaid(s)
      BY <1>5, <2>3 DEF ConvertCommit, SaleOf
    <3> QED
      BY <1>2, <1>3, <1>4, <2>1, <2>3, <3>1
  <2> QED
    BY <2>2, <2>3
<1>6. CASE SettleCommit(h)
  <2>1. ~q.dec.cash
    BY <1>3, <1>6 DEF SettleCommit
  <2>2. sales' = MarkSalePaid(s) /\ docs' = CreateInvoiceForSale(s, q.t)
    BY <1>4, <1>6, <2>1 DEF SettleCommit
  <2> QED
    BY <1>2, <1>3, <1>4, <2>1, <2>2
<1> QED
  BY <1>5, <1>6

\* Conversions and settlements keep the tables and the handlers as they should be.
LEMMA ConvertOK ==
  ASSUME TypeOK, HandlersOK, NEW h \in Handlers, ConvertCommit(h) \/ SettleCommit(h)
  PROVE  TypeOK' /\ HandlersOK'
<1>0. PICK q \in HandlerRecords : q = hd[h]
  BY DEF TypeOK
<1>1. PICK s : s = SaleOf(q)
  OBVIOUS
<1>2. /\ q.t \in Trans \cup {NoTrans} /\ q.total \in Nat /\ q.dec \in Decisions
      /\ q.dec.status \in {"matched", "cash_sale"}
      /\ \/ s \in DOMAIN sales /\ ~q.dec.cash /\ sales' = MarkSalePaid(s)
         \/ s = Len(sales) + 1 /\ q.dec.cash /\ sales' = Append(sales, PaidSale(q.total))
      /\ docs' = CreateInvoiceForSale(s, q.t)
  BY <1>0, <1>1, Converts
<1>3. Len(sales) \in Nat /\ DOMAIN sales = 1 .. Len(sales) /\ Len(docs) \in Nat
  BY Tables
<1>4. sales' \in Seq(SaleRows) /\ Len(sales) =< Len(sales') /\ s \in 1 .. Len(sales')
  BY <1>2, Closes
<1>5. Len(sales') \in Nat
  BY <1>4, LenProperties
<1>6. s \in Nat
  BY <1>2, <1>3
<1>7. PICK doc \in DocRows : docs' = Append(docs, doc) /\ doc.kind = "INVOICE" /\ doc.sale = s /\ doc.parent = 0
  BY <1>2, <1>6, InvoiceMade
<1>8. doc.sale \in 1 .. Len(sales') /\ doc.parent \in 0 .. Len(docs)
  BY <1>3, <1>4, <1>7
<1>9. Invoiced(s)'
  BY <1>7, DocAdded
<1>10. UNCHANGED <<event, request, gate, bounds>> /\ Becomes(h, Idle)
  BY DEF ConvertCommit, SettleCommit
<1>11. \A r \in DOMAIN request' : request'[r].sale \in 1 .. Len(sales')
  <2>1. \A r \in DOMAIN request : request[r].sale \in 1 .. Len(sales)
    BY <1>3 DEF TypeOK, RowsOK
  <2> QED
    BY <1>3, <1>4, <1>5, <1>10, <2>1
<1>12. \A t \in Trans : payment[t] \in [status : Statuses, rule : Rules, sale : 0 .. Len(sales')]
  <2>1. \A t \in Trans : payment[t].sale \in 0 .. Len(sales')
    <3>1. \A t \in Trans : payment[t].sale \in 0 .. Len(sales)
      BY DEF TypeOK, RowsOK
    <3> QED
      BY <1>3, <1>4, <1>5, <3>1
  <2> QED
    BY <2>1 DEF TypeOK, RowsOK
<1>13. /\ payment' \in [Trans -> [status : Statuses, rule : Rules, sale : 0 .. Len(sales')]]
       /\ \A t \in Trans : Recorded(t) =>
             payment'[t].status # "none" /\ (payment'[t].sale = payment[t].sale \/ payment'[t].sale = s)
  <2>1. CASE ConvertCommit(h)
    <3>1. q.t \in Trans
      BY <1>0, <2>1 DEF ConvertCommit, HandlersOK, HandlerOK
    <3>2. PICK pay : pay = [status |-> q.dec.status, rule |-> q.dec.rule, sale |-> s]
      OBVIOUS
    <3>3. pay \in [status : Statuses, rule : Rules, sale : 0 .. Len(sales')] /\ pay.status # "none" /\ pay.sale = s
      BY <1>2, <1>4, <1>5, <3>2 DEF Decisions
    <3>4. payment' = [payment EXCEPT ![q.t] = pay]
      BY <1>0, <1>1, <2>1, <3>2 DEF ConvertCommit, SaleOf
    <3>5. payment' \in [Trans -> [status : Statuses, rule : Rules, sale : 0 .. Len(sales')]]
      BY <1>12, <3>1, <3>3, <3>4 DEF TypeOK, RowsOK
    <3>6. \A t \in Trans : payment'[t] = IF t = q.t THEN pay ELSE payment[t]
      BY <3>4 DEF TypeOK, RowsOK
    <3> QED
      BY <3>3, <3>5, <3>6 DEF Recorded
  <2>2. CASE SettleCommit(h)
    <3>1. payment' = [t \in Trans |-> IF t \in q.seen THEN [payment[t] EXCEPT !.status = "matched"] ELSE payment[t]]
      BY <1>0, <2>2 DEF SettleCommit
    <3>2. ASSUME NEW t \in Trans
          PROVE  /\ payment'[t] \in [status : Statuses, rule : Rules, sale : 0 .. Len(sales')]
                 /\ payment'[t].sale = payment[t].sale
                 /\ Recorded(t) => payment'[t].status # "none"
      <4>1. CASE t \in q.seen
        <5>1. PICK pay : pay = [payment[t] EXCEPT !.status = "matched"]
          OBVIOUS
        <5>2. /\ pay \in [status : Statuses, rule : Rules, sale : 0 .. Len(sales')]
              /\ pay.sale = payment[t].sale /\ pay.status = "matched"
          BY <1>12, <5>1 DEF Statuses
        <5>3. payment'[t] = pay
          BY <3>1, <4>1, <5>1
        <5> QED
          BY <5>2, <5>3
      <4>2. CASE t \notin q.seen
        BY <1>12, <3>1, <4>2 DEF Recorded
      <4> QED
        BY <4>1, <4>2
    <3> QED
      BY <3>1, <3>2
  <2> QED
    BY <2>1, <2>2
<1>14. ASSUME NEW t \in Trans, Recorded(t)
       PROVE  payment'[t].status # "none" /\ (payment'[t].sale = payment[t].sale \/ Invoiced(payment[t].sale)')
  <2>1. CASE payment'[t].sale = s
    <3>1. Invoiced(payment[t].sale)'
      BY <1>9, <2>1 DEF Invoiced, Invoices
    <3> QED
      BY <1>13, <1>14, <3>1
  <2> QED
    BY <1>13, <1>14, <2>1
<1>15. RowsOK' /\ Onwards
  <2>1. request' \in Seq(RequestRows) /\ Len(request) =< Len(request')
    BY <1>10, Tables DEF TypeOK, RowsOK
  <2> QED
    BY <1>4, <1>7, <1>8, <1>10, <1>11, <1>13, <1>14, <2>1, WritesOK
<1>16. PICK p : p = Idle
  OBVIOUS
<1>17. p \in HandlerRecords /\ HandlerOK(p) /\ Becomes(h, p)
  BY <1>10, <1>16, IdleOK
<1>18. HandlerOK(p)'
  BY <1>15, <1>17, RecordKept
<1>19. hd' \in [Handlers -> HandlerRecords] /\ HandlersOK'
  BY <1>15, <1>17, <1>18, HandlerMoves
<1> QED
  BY <1>10, <1>15, <1>19 DEF TypeOK, bounds

\* The invoice a reversal credits is one of its payment's sale that KRA acknowledged.
LEMMA AckedInvoiceIs ==
  ASSUME TypeOK, NEW s, NEW i, i = AckedInvoice(s), i # 0
  PROVE  i \in DOMAIN docs /\ docs[i].kind = "INVOICE" /\ docs[i].sale = s /\ docs[i].acked
<1> DEFINE S == {x \in DOMAIN docs : docs[x].kind = "INVOICE" /\ docs[x].sale = s /\ docs[x].acked}
<1>1. S \in SUBSET (1 .. Len(docs)) /\ Len(docs) \in Nat
  BY Tables
<1>2. Latest(S) = 0 \/ Latest(S) \in S
  BY <1>1, LatestOf
<1> QED
  BY <1>2 DEF AckedInvoice

\* What applyReversal writes: the payment's status, and at most one credit note.
LEMMA Reverses ==
  ASSUME TypeOK, HandlersOK, NEW h \in Handlers, ApplyReversal(h)
  PROVE  /\ UNCHANGED <<event, sales, request, gate, bounds>>
         /\ payment' \in [Trans -> [status : Statuses, rule : Rules, sale : 0 .. Len(sales)]]
         /\ \A t \in Trans : /\ payment'[t].sale = payment[t].sale
                             /\ payment'[t] = payment[t] \/ (Recorded(t) /\ payment'[t].status = "reversed")
         /\ \/ UNCHANGED docs
            \/ \E doc \in DocRows, i \in DOMAIN docs :
                  /\ docs' = Append(docs, doc) /\ doc.kind = "CREDIT_NOTE" /\ doc.parent = i
                  /\ doc.sale = docs[i].sale /\ docs[i].kind = "INVOICE" /\ docs[i].acked
                  /\ doc.sale \in DOMAIN sales
<1>1. PICK o : o = event[hd[h].t].in.orig
  OBVIOUS
<1>2. PICK known \in BOOLEAN : known = (o \in Trans /\ Recorded(o))
  OBVIOUS
<1>3. PICK i : i = AckedInvoice(payment[o].sale)
  OBVIOUS
<1>4. /\ UNCHANGED <<event, sales, request, gate, bounds>>
      /\ payment' = IF known THEN [payment EXCEPT ![o].status = "reversed"] ELSE payment
      /\ docs' = IF known /\ payment[o].sale # NoSale /\ i # 0
                 THEN Append(docs, [kind |-> "CREDIT_NOTE", sale |-> payment[o].sale,
                                    pay |-> o, parent |-> i, acked |-> FALSE])
                 ELSE docs
  BY <1>1, <1>2, <1>3 DEF ApplyReversal
<1>5. /\ payment' \in [Trans -> [status : Statuses, rule : Rules, sale : 0 .. Len(sales)]]
      /\ \A t \in Trans : /\ payment'[t].sale = payment[t].sale
                          /\ payment'[t] = payment[t] \/ (Recorded(t) /\ payment'[t].status = "reversed")
  <2>1. CASE known
    <3>1. o \in Trans /\ Recorded(o)
      BY <1>2, <2>1
    <3>2. PICK pay : pay = [payment[o] EXCEPT !.status = "reversed"]
      OBVIOUS
    <3>3. /\ pay \in [status : Statuses, rule : Rules, sale : 0 .. Len(sales)]
          /\ pay.sale = payment[o].sale /\ pay.status = "reversed"
      BY <3>1, <3>2 DEF TypeOK, RowsOK, Statuses
    <3>4. payment' = [payment EXCEPT ![o] = pay]
      BY <1>4, <2>1, <3>2
    <3>5. \A t \in Trans : payment'[t] = IF t = o THEN pay ELSE payment[t]
      BY <3>4 DEF TypeOK, RowsOK
    <3>6. payment' \in [Trans -> [status : Statuses, rule : Rules, sale : 0 .. Len(sales)]]
      BY <3>1, <3>3, <3>4 DEF TypeOK, RowsOK
    <3> QED
      BY <3>1, <3>3, <3>5, <3>6
  <2>2. CASE ~known
    BY <1>4, <2>2 DEF TypeOK, RowsOK
  <2> QED
    BY <2>1, <2>2
<1>6. CASE known /\ payment[o].sale # NoSale /\ i # 0
  <2>0. PICK n \in Nat : n = Len(sales) /\ DOMAIN sales = 1 .. n
    BY Tables
  <2>a. o \in Trans /\ payment[o].sale \in 0 .. n /\ payment[o].sale # 0
    BY <1>2, <1>6, <2>0 DEF TypeOK, RowsOK, NoSale
  <2>1. o \in Trans /\ payment[o].sale \in DOMAIN sales /\ payment[o].sale \in Nat
    BY <2>0, <2>a
  <2>2. PICK s \in Nat : s = payment[o].sale
    BY <2>1
  <2>3. i \in DOMAIN docs /\ docs[i].kind = "INVOICE" /\ docs[i].sale = s /\ docs[i].acked /\ i \in Nat
    BY <1>3, <1>6, <2>2, AckedInvoiceIs, Tables
  <2>4. PICK doc : doc = [kind |-> "CREDIT_NOTE", sale |-> s, pay |-> o, parent |-> i, acked |-> FALSE]
    OBVIOUS
  <2>5. doc \in DocRows /\ doc.kind = "CREDIT_NOTE" /\ doc.parent = i /\ doc.sale = s
    BY <2>1, <2>3, <2>4 DEF DocRows
  <2>6. docs' = Append(docs, doc)
    BY <1>4, <1>6, <2>2, <2>4
  <2> QED
    BY <1>4, <1>5, <2>1, <2>2, <2>3, <2>5, <2>6
<1>7. CASE ~(known /\ payment[o].sale # NoSale /\ i # 0)
  BY <1>4, <1>5, <1>7
<1> QED
  BY <1>6, <1>7

\* A reversal keeps the tables and the handlers as they should be.
LEMMA ReversalOK ==
  ASSUME TypeOK, HandlersOK, NEW h \in Handlers, ApplyReversal(h)
  PROVE  TypeOK' /\ HandlersOK'
<1>0. PICK q \in HandlerRecords : q = hd[h]
  BY DEF TypeOK
<1>1. /\ UNCHANGED <<event, sales, request, gate, bounds>>
      /\ payment' \in [Trans -> [status : Statuses, rule : Rules, sale : 0 .. Len(sales)]]
      /\ \A t \in Trans : /\ payment'[t].sale = payment[t].sale
                          /\ payment'[t] = payment[t] \/ (Recorded(t) /\ payment'[t].status = "reversed")
      /\ \/ UNCHANGED docs
         \/ \E doc \in DocRows, i \in DOMAIN docs :
               /\ docs' = Append(docs, doc) /\ doc.kind = "CREDIT_NOTE" /\ doc.parent = i
               /\ doc.sale = docs[i].sale /\ docs[i].kind = "INVOICE" /\ docs[i].acked
               /\ doc.sale \in DOMAIN sales
  BY Reverses
<1>2. RowsOK' /\ Onwards
  <2>1. \/ UNCHANGED docs
        \/ \E doc \in DocRows : /\ docs' = Append(docs, doc)
                                /\ doc.sale \in 1 .. Len(sales') /\ doc.parent \in 0 .. Len(docs)
    BY <1>1, Tables
  <2>2. \A t \in Trans : Recorded(t) => payment'[t].status # "none" /\ payment'[t].sale = payment[t].sale
    BY <1>1 DEF Recorded
  <2>3. /\ sales' \in Seq(SaleRows) /\ Len(sales) =< Len(sales')
        /\ request' \in Seq(RequestRows) /\ Len(request) =< Len(request')
        /\ \A r \in DOMAIN request' : request'[r].sale \in 1 .. Len(sales')
    BY <1>1, Tables DEF TypeOK, RowsOK
  <2> QED
    BY <1>1, <2>1, <2>2, <2>3, WritesOK
<1>3. PICK p : p = [q EXCEPT !.pc = "applied"]
  OBVIOUS
<1>4. p \in HandlerRecords /\ p.pc = "applied" /\ p.t = q.t /\ p.dec = q.dec /\ p.seen = q.seen
  BY <1>3 DEF HandlerRecords, Pcs
<1>5. q.pc = "resolved" /\ event[q.t].in.kind = "reversal" /\ Becomes(h, p)
  BY <1>0, <1>3 DEF ApplyReversal
<1>6. HandlerOK(q)
  BY <1>0 DEF HandlersOK
<1>7. HandlerOK(p)
  BY <1>4, <1>5, <1>6 DEF HandlerOK, OnEvent
<1>8. HandlerOK(p)'
  BY <1>2, <1>4, <1>7, RecordKept
<1>9. hd' \in [Handlers -> HandlerRecords] /\ HandlersOK'
  BY <1>2, <1>4, <1>5, <1>8, HandlerMoves
<1> QED
  BY <1>1, <1>2, <1>9 DEF TypeOK, bounds

\* What is done at the counter and by the operator waits for no handler.
LEMMA CounterOK ==
  ASSUME TypeOK, HandlersOK, Counter \/ \E i \in DOMAIN docs : Ack(i)
  PROVE  TypeOK' /\ HandlersOK'
<1>1. /\ Len(sales) \in Nat /\ DOMAIN sales = 1 .. Len(sales)
      /\ Len(request) \in Nat /\ DOMAIN request = 1 .. Len(request)
      /\ Len(docs) \in Nat /\ DOMAIN docs = 1 .. Len(docs)
  BY Tables
<1>2. ASSUME NEW op, Operate(op) PROVE faults' \in 0 .. MaxFaults /\ ops' \in 0 .. MaxOps
  BY <1>2, IngestAssumption DEF Operate, TypeOK
<1>3. ASSUME NEW n \in Nat, n = Len(sales), sales' \in Seq(SaleRows), Len(sales') = n + 1,
             UNCHANGED <<event, payment, request, gate, hd>>,
             faults' \in 0 .. MaxFaults, ops' \in 0 .. MaxOps,
             \/ UNCHANGED docs
             \/ \E doc \in DocRows : docs' = Append(docs, doc) /\ doc.sale = n + 1 /\ doc.parent = 0
      PROVE  TypeOK' /\ HandlersOK'
  <2>1. /\ Len(sales) =< Len(sales') /\ Len(request) =< Len(request')
        /\ request' \in Seq(RequestRows) /\ \A r \in DOMAIN request' : request'[r].sale \in 1 .. Len(sales')
    BY <1>1, <1>3 DEF TypeOK, RowsOK
  <2>2. \/ UNCHANGED docs
        \/ \E doc \in DocRows : /\ docs' = Append(docs, doc)
                                /\ doc.sale \in 1 .. Len(sales') /\ doc.parent \in 0 .. Len(docs)
    BY <1>1, <1>3
  <2>3. payment' \in [Trans -> [status : Statuses, rule : Rules, sale : 0 .. Len(sales')]]
    <3>1. \A t \in Trans : payment[t].sale \in 0 .. n
      BY <1>3 DEF TypeOK, RowsOK
    <3>2. \A t \in Trans : payment[t].sale \in 0 .. n + 1
      BY <3>1
    <3>3. \A t \in Trans : payment[t] \in [status : Statuses, rule : Rules, sale : 0 .. n + 1]
      BY <3>2 DEF TypeOK, RowsOK
    <3> QED
      BY <1>3, <3>3 DEF TypeOK, RowsOK
  <2>4. \A t \in Trans : Recorded(t) => payment'[t].status # "none" /\ payment'[t].sale = payment[t].sale
    BY <1>3 DEF Recorded
  <2>5. RowsOK' /\ Onwards
    BY <1>3, <2>1, <2>2, <2>3, <2>4, WritesOK
  <2>6. HandlersOK'
    BY <1>3, <2>5, HandlersWait
  <2> QED
    BY <1>3, <2>5, <2>6 DEF TypeOK
<1>4. ASSUME NEW c \in Carts, CreateSale(c) PROVE TypeOK' /\ HandlersOK'
  <2>1. PICK x : x = [status |-> "open", total |-> c.total, payer |-> c.payer, recent |-> c.recent]
    OBVIOUS
  <2>2. x \in SaleRows
    BY <2>1, IngestAssumption DEF SaleRows
  <2>3. sales' = Append(sales, x)
    BY <1>4, <2>1 DEF CreateSale
  <2>4. sales' \in Seq(SaleRows) /\ Len(sales') = Len(sales) + 1
    BY <2>2, <2>3, RowAdded DEF TypeOK, RowsOK
  <2>5. Operate("sale") /\ UNCHANGED <<event, payment, request, docs, gate, hd>>
    BY <1>4 DEF CreateSale
  <2> QED
    BY <1>1, <1>2, <1>3, <2>4, <2>5
<1>5. ASSUME NEW c \in Carts, CreateCashSale(c) PROVE TypeOK' /\ HandlersOK'
  <2>1. sales' = Append(sales, PaidSale(c.total)) /\ docs' = CreateInvoiceForSale(Len(sales) + 1, NoTrans)
    BY <1>5 DEF CreateCashSale
  <2>2. sales' \in Seq(SaleRows) /\ Len(sales') = Len(sales) + 1
    BY <2>1, SaleMade, IngestAssumption
  <2>3. PICK n \in Nat : n = Len(sales)
    BY <1>1
  <2>4. \E doc \in DocRows : docs' = Append(docs, doc) /\ doc.sale = n + 1 /\ doc.parent = 0
    BY <2>1, <2>3, InvoiceMade
  <2>5. Operate("cash") /\ UNCHANGED <<event, payment, request, gate, hd>>
    BY <1>5 DEF CreateCashSale
  <2> QED
    BY <1>2, <1>3, <2>2, <2>3, <2>4, <2>5
<1>6. ASSUME NEW s \in DOMAIN sales, NEW t \in Trans, NEW recent \in BOOLEAN, CreateSTKRequest(s, t, recent)
      PROVE  TypeOK' /\ HandlersOK'
  <2>1. PICK x : x = [status |-> "pending", sale |-> s, amount |-> sales[s].total,
                      payer |-> sales[s].payer, recent |-> recent, receipt |-> t]
    OBVIOUS
  <2>2. sales[s] \in SaleRows /\ sales[s].payer # NoPayer /\ s \in Nat
    BY <1>1, <1>6, Tables DEF CreateSTKRequest
  <2>3. x \in RequestRows /\ x.sale = s
    BY <2>1, <2>2 DEF RequestRows, SaleRows
  <2>4. request' = Append(request, x) /\ Operate("request") /\ UNCHANGED <<event, payment, sales, docs, gate, hd>>
    BY <1>6, <2>1 DEF CreateSTKRequest
  <2>5. /\ request' \in Seq(RequestRows) /\ Len(request') = Len(request) + 1 /\ DOMAIN request' = 1 .. Len(request) + 1
        /\ \A r \in DOMAIN request : request'[r] = request[r]
        /\ request'[Len(request) + 1] = x
    BY <2>3, <2>4, RowAdded DEF TypeOK, RowsOK
  <2>6. \A r \in DOMAIN request' : r \in DOMAIN request \/ r = Len(request) + 1
    BY <1>1, <2>5
  <2>7. \A r \in DOMAIN request' : request'[r].sale \in DOMAIN sales'
    BY <2>3, <2>4, <2>5, <2>6 DEF TypeOK, RowsOK
  <2>8. RowsOK'
    BY <2>4, <2>5, <2>7 DEF TypeOK, RowsOK
  <2>9. Onwards
    BY <1>1, <2>4, <2>5 DEF Onwards, Recorded, Invoiced, Invoices
  <2>10. HandlersOK'
    BY <2>4, <2>9, HandlersWait
  <2> QED
    BY <1>2, <2>4, <2>8, <2>10 DEF TypeOK
<1>7. CASE VerifyShortcode \/ RejectShortcode
  <2>1. UNCHANGED <<event, tables, hd>> /\ gate' \in BOOLEAN /\ (Operate("verify") \/ Operate("reject"))
    BY <1>7 DEF VerifyShortcode, RejectShortcode
  <2>2. RowsOK' /\ Onwards
    BY <2>1, NothingMoves
  <2>3. HandlersOK'
    BY <2>1, <2>2, HandlersWait
  <2> QED
    BY <1>2, <2>1, <2>2, <2>3 DEF TypeOK
<1>8. ASSUME NEW i \in DOMAIN docs, Ack(i) PROVE TypeOK' /\ HandlersOK'
  <2>1. PICK x : x = [docs[i] EXCEPT !.acked = TRUE]
    OBVIOUS
  <2>2. docs[i] \in DocRows
    BY Tables
  <2>3. x \in DocRows /\ x.sale = docs[i].sale /\ x.parent = docs[i].parent /\ x.kind = docs[i].kind
    BY <2>1, <2>2 DEF DocRows
  <2>4. docs' = [docs EXCEPT ![i] = x] /\ UNCHANGED <<event, payment, sales, request, gate, hd, bounds>>
    BY <1>8, <2>1 DEF Ack
  <2>5. /\ docs' \in Seq(DocRows) /\ DOMAIN docs' = DOMAIN docs
        /\ \A j \in DOMAIN docs : docs'[j] = IF j = i THEN x ELSE docs[j]
    BY <2>3, <2>4, RowReplaced DEF TypeOK, RowsOK
  <2>6. RowsOK'
    BY <2>3, <2>4, <2>5 DEF TypeOK, RowsOK
  <2>7. \A s : Invoiced(s) => Invoiced(s)'
    BY <2>3, <2>5 DEF Invoiced, Invoices
  <2>8. Onwards
    BY <1>1, <2>4, <2>7 DEF Onwards, Recorded
  <2>9. HandlersOK'
    BY <2>4, <2>8, HandlersWait
  <2> QED
    BY <2>4, <2>6, <2>9 DEF TypeOK, bounds
<1>9. ASSUME NEW t \in Trans, ReplayWebhook(t) PROVE TypeOK' /\ HandlersOK'
  <2>1. PICK m \in {"refused", "replayed"} : event' = [event EXCEPT ![t].mark = m]
    BY <1>9 DEF ReplayWebhook, ReplayAnswers
  <2>2. /\ event[t].mark # "none" /\ UNCHANGED <<tables, gate, hd>>
        /\ faults' \in 0 .. MaxFaults /\ ops' \in 0 .. MaxOps
    BY <1>2, <1>9 DEF ReplayWebhook
  <2>3. PICK old \in EventRows : old = event[t]
    BY DEF TypeOK, RowsOK
  <2>4. PICK e : e = [old EXCEPT !.mark = m]
    OBVIOUS
  <2>5. e \in EventRows /\ e.mark = m /\ e.in = event[t].in
    BY <2>3, <2>4 DEF EventRows, Processed
  <2>6. event' = [event EXCEPT ![t] = e]
    BY <2>1, <2>3, <2>4
  <2>7. Onwards /\ RowsOK'
    BY <2>2, <2>5, <2>6, EventMoves
  <2>8. HandlersOK'
    BY <2>2, <2>7, HandlersWait
  <2> QED
    BY <2>2, <2>7, <2>8 DEF TypeOK
<1> QED
  BY <1>4, <1>5, <1>6, <1>7, <1>8, <1>9 DEF Counter

\* Every step keeps the types, the foreign keys and what the handlers rely on.
LEMMA TypeStep ==
  ASSUME TypeOK, HandlersOK, [Next]_vars
  PROVE  TypeOK' /\ HandlersOK'
<1>1. CASE UNCHANGED vars
  <2>1. UNCHANGED <<event, tables>> /\ UNCHANGED <<gate, hd, faults, ops>>
    BY <1>1 DEF vars, tables
  <2>2. RowsOK' /\ Onwards
    BY <2>1, NothingMoves
  <2>3. HandlersOK'
    BY <2>1, <2>2, HandlersWait
  <2> QED
    BY <2>1, <2>2, <2>3 DEF TypeOK
<1>2. CASE Next
  BY <1>2, StopsOK, ProcessReads, BeginsOK, EventsOK, StkResultOK, ApplyPaymentOK, ConvertOK, ReversalOK, CounterOK
     DEF Next, Process, Callback, Sweep
<1> QED
  BY <1>1, <1>2

\* It all starts with no rows and no handler at work.
LEMMA InitOK ==
  ASSUME Init
  PROVE  TypeOK /\ HandlersOK
<1>1. NoPayload \in Payload
  BY DEF NoPayload, Payload, NoSale
<1>2. PICK e : e = [mark |-> "none", raw |-> "c2b", in |-> NoPayload]
  OBVIOUS
<1>3. e \in EventRows
  BY <1>1, <1>2 DEF EventRows, Processed
<1>4. event \in [Trans -> EventRows]
  BY <1>2, <1>3 DEF Init
<1>5. sales = <<>> /\ request = <<>> /\ docs = <<>>
  BY DEF Init
<1>6. payment \in [Trans -> [status : Statuses, rule : Rules, sale : 0 .. Len(sales)]]
  BY <1>5 DEF Init, NoPayment, Statuses, Rules, NoSale
<1>7. RowsOK
  BY <1>4, <1>5, <1>6 DEF RowsOK
<1>8. NoDecision = [status |-> "none", rule |-> "none", sale |-> 0, stk |-> 0, cash |-> FALSE]
  BY DEF NoDecision, Decision, NoSale, NoRequest
<1>9. NoDecision \in Decisions
  BY <1>8 DEF Decisions, Statuses, Rules
<1>10. Idle \in HandlerRecords
  BY <1>9 DEF Idle, HandlerRecords, Pcs
<1>11. TypeOK
  BY <1>7, <1>10, IngestAssumption DEF Init, TypeOK
<1>12. HandlersOK
  BY <1>11, IdleOK DEF Init, HandlersOK
<1> QED
  BY <1>11, <1>12

\* The invariant the other results rest on.
LEMMA HandlersHold == Spec => [](TypeOK /\ HandlersOK)
<1>1. Init => TypeOK /\ HandlersOK
  BY InitOK
<1>2. TypeOK /\ HandlersOK /\ [Next]_vars => (TypeOK /\ HandlersOK)'
  BY TypeStep
<1> QED
  BY <1>1, <1>2, PTL DEF Spec

\* The types and foreign keys hold, and every handler may rely on what it read,
\* of any number of handlers, payloads and carts.
THEOREM TypeCorrect == Spec => []TypeOK
BY HandlersHold, PTL

-----------------------------------------------------------------------------
(* What a step does to the ledger.                                         *)

\* A sale is closed, one that was there or one made for it, with its invoice;
\* the payments that change are for a sale that is now invoiced.
Pays(s, t) ==
    /\ DOMAIN sales \subseteq DOMAIN sales'
    /\ \A x \in DOMAIN sales' : x \in DOMAIN sales \/ x = s
    /\ \A x \in DOMAIN sales : /\ sales'[x].total = sales[x].total
                               /\ x # s => sales'[x] = sales[x]
                               /\ sales[x].status = "paid" => sales'[x] = sales[x]
    /\ s \in DOMAIN sales' /\ s \in Nat /\ sales'[s].status = "paid"
    /\ \E doc \in DocRows : docs' = Append(docs, doc) /\ doc.kind = "INVOICE" /\ doc.sale = s /\ doc.pay = t
    /\ \A p \in Trans : \/ payment'[p] = payment[p]
                        \/ /\ payment'[p].status \in {"matched", "cash_sale"}
                           /\ payment'[p].sale = s \/ Invoiced(payment'[p].sale)

\* A sale is opened.
Opens ==
    /\ UNCHANGED <<payment, docs>>
    /\ DOMAIN sales \subseteq DOMAIN sales'
    /\ \A x \in DOMAIN sales : sales'[x] = sales[x]
    /\ \A x \in DOMAIN sales' : x \in DOMAIN sales \/ sales'[x].status = "open"

\* A payment is written down that closes nothing.
Notes ==
    /\ UNCHANGED <<sales, docs>>
    /\ \A p \in Trans : \/ payment'[p] = payment[p]
                        \/ ~Recorded(p) /\ payment'[p].status \in {"unmatched", "partial"}

\* A payment is reversed, with or without a credit note.
Credits ==
    /\ UNCHANGED sales
    /\ \A p \in Trans : /\ payment'[p].sale = payment[p].sale
                        /\ payment'[p] = payment[p] \/ (Recorded(p) /\ payment'[p].status = "reversed")
    /\ \/ UNCHANGED docs
       \/ \E doc \in DocRows, i \in DOMAIN docs :
             /\ docs' = Append(docs, doc) /\ doc.kind = "CREDIT_NOTE" /\ doc.parent = i
             /\ doc.sale = docs[i].sale /\ docs[i].kind = "INVOICE" /\ docs[i].acked

\* KRA acknowledges a document.
Acks(i) ==
    /\ UNCHANGED <<payment, sales>>
    /\ i \in DOMAIN docs /\ Len(docs') = Len(docs) /\ DOMAIN docs' = DOMAIN docs
    /\ \A j \in DOMAIN docs : j # i => docs'[j] = docs[j]
    /\ docs'[i].kind = docs[i].kind /\ docs'[i].sale = docs[i].sale /\ docs'[i].pay = docs[i].pay
    /\ docs'[i].parent = docs[i].parent /\ docs'[i].acked

\* The transaction of applyPayment is one of two of these.
LEMMA ApplyEffect ==
  ASSUME TypeOK, HandlersOK, NEW h \in Handlers, NEW q, q = hd[h], ApplyPayment(h)
  PROVE  /\ IF q.dec.status \in {"matched", "cash_sale"} THEN Pays(SaleOf(q), q.t) ELSE Notes
         /\ \A p \in Trans : p # q.t => payment'[p] = payment[p]
         /\ q.t \in Trans /\ ~Recorded(q.t) /\ event[q.t].mark # "none"
         /\ payment'[q.t].status = q.dec.status /\ payment'[q.t].sale = SaleOf(q)
<1>1. PICK s : s = SaleOf(q)
  OBVIOUS
<1>2. /\ q.t \in Trans /\ q.total \in Nat /\ ~Recorded(q.t) /\ event[q.t].mark # "none"
      /\ Decided(q.dec)
      /\ IF q.dec.status \in {"matched", "cash_sale"}
         THEN /\ \/ s \in DOMAIN sales /\ ~q.dec.cash /\ sales' = MarkSalePaid(s)
                 \/ s = Len(sales) + 1 /\ q.dec.cash /\ sales' = Append(sales, PaidSale(q.total))
              /\ docs' = CreateInvoiceForSale(s, q.t)
         ELSE /\ sales' = sales /\ docs' = docs
      /\ payment' = [payment EXCEPT ![q.t] = [status |-> q.dec.status, rule |-> q.dec.rule, sale |-> s]]
  BY <1>1, Applies
<1>3. \A p \in Trans : payment'[p] = IF p = q.t THEN [status |-> q.dec.status, rule |-> q.dec.rule, sale |-> s]
                                                ELSE payment[p]
  BY <1>2 DEF TypeOK, RowsOK
<1>4. /\ \A p \in Trans : p # q.t => payment'[p] = payment[p]
      /\ payment'[q.t].status = q.dec.status /\ payment'[q.t].sale = s
  BY <1>2, <1>3
<1>5. CASE q.dec.status \in {"matched", "cash_sale"}
  <2>1. s \in Nat
    BY <1>2, <1>5, Tables
  <2>2. \E doc \in DocRows : docs' = Append(docs, doc) /\ doc.kind = "INVOICE" /\ doc.sale = s /\ doc.pay = q.t
    BY <1>2, <1>5, <2>1, InvoiceMade
  <2>3. /\ DOMAIN sales \subseteq DOMAIN sales'
        /\ \A x \in DOMAIN sales' : x \in DOMAIN sales \/ x = s
        /\ \A x \in DOMAIN sales : /\ sales'[x].total = sales[x].total
                                   /\ x # s => sales'[x] = sales[x]
                                   /\ sales[x].status = "paid" => sales'[x] = sales[x]
        /\ s \in DOMAIN sales' /\ sales'[s].status = "paid"
    BY <1>2, <1>5, Closes
  <2>4. \A p \in Trans : payment'[p] = payment[p] \/
           (payment'[p].status \in {"matched", "cash_sale"} /\ payment'[p].sale = s)
    BY <1>4, <1>5
  <2>5. Pays(s, q.t)
    BY <2>1, <2>2, <2>3, <2>4 DEF Pays
  <2> QED
    BY <1>1, <1>2, <1>4, <1>5, <2>5
<1>6. CASE q.dec.status \notin {"matched", "cash_sale"}
  <2>1. q.dec.status \in {"unmatched", "partial"}
    BY <1>2, <1>6 DEF Decided
  <2>2. Notes
    BY <1>2, <1>4, <1>6, <2>1 DEF Notes
  <2> QED
    BY <1>1, <1>2, <1>4, <1>6, <2>2
<1> QED
  BY <1>5, <1>6

\* So are conversions and settlements.
LEMMA ConvertEffect ==
  ASSUME TypeOK, HandlersOK, NEW h \in Handlers, ConvertCommit(h) \/ SettleCommit(h)
  PROVE  \E s, t : Pays(s, t)
<1>0. PICK q \in HandlerRecords : q = hd[h]
  BY DEF TypeOK
<1>1. PICK s : s = SaleOf(q)
  OBVIOUS
<1>2. /\ q.t \in Trans \cup {NoTrans} /\ q.total \in Nat
      /\ q.dec.status \in {"matched", "cash_sale"}
      /\ \/ s \in DOMAIN sales /\ ~q.dec.cash /\ sales' = MarkSalePaid(s)
         \/ s = Len(sales) + 1 /\ q.dec.cash /\ sales' = Append(sales, PaidSale(q.total))
      /\ docs' = CreateInvoiceForSale(s, q.t)
  BY <1>0, <1>1, Converts
<1>3. s \in Nat
  BY <1>2, Tables
<1>4. \E doc \in DocRows : docs' = Append(docs, doc) /\ doc.kind = "INVOICE" /\ doc.sale = s /\ doc.pay = q.t
  <2>1. PICK t \in Trans \cup {NoTrans} : t = q.t
    BY <1>2
  <2>2. docs' = CreateInvoiceForSale(s, t)
    BY <1>2, <2>1
  <2> QED
    BY <1>3, <2>1, <2>2, InvoiceMade
<1>5. /\ DOMAIN sales \subseteq DOMAIN sales'
      /\ \A x \in DOMAIN sales' : x \in DOMAIN sales \/ x = s
      /\ \A x \in DOMAIN sales : /\ sales'[x].total = sales[x].total
                                 /\ x # s => sales'[x] = sales[x]
                                 /\ sales[x].status = "paid" => sales'[x] = sales[x]
      /\ s \in DOMAIN sales' /\ sales'[s].status = "paid"
  BY <1>2, Closes
<1>6. ASSUME NEW p \in Trans
      PROVE  \/ payment'[p] = payment[p]
             \/ /\ payment'[p].status \in {"matched", "cash_sale"}
                /\ payment'[p].sale = s \/ Invoiced(payment'[p].sale)
  <2>1. CASE ConvertCommit(h)
    <3>1. payment' = [payment EXCEPT ![q.t] = [status |-> q.dec.status, rule |-> q.dec.rule, sale |-> s]]
      BY <1>0, <1>1, <2>1 DEF ConvertCommit, SaleOf
    <3>2. CASE p = q.t
      <4>1. payment'[p] = [status |-> q.dec.status, rule |-> q.dec.rule, sale |-> s]
        BY <3>1, <3>2 DEF TypeOK, RowsOK
      <4> QED
        BY <1>2, <4>1
    <3>3. CASE p # q.t
      BY <3>1, <3>3 DEF TypeOK, RowsOK
    <3> QED
      BY <3>2, <3>3
  <2>2. CASE SettleCommit(h)
    <3>1. payment' = [t \in Trans |-> IF t \in q.seen THEN [payment[t] EXCEPT !.status = "matched"] ELSE payment[t]]
      BY <1>0, <2>2 DEF SettleCommit
    <3>2. CASE p \in q.seen
      <4>1. PICK pay : pay = [payment[p] EXCEPT !.status = "matched"]
        OBVIOUS
      <4>2. payment[p] \in [status : Statuses, rule : Rules, sale : 0 .. Len(sales)]
        BY DEF TypeOK, RowsOK
      <4>3. pay.status = "matched" /\ pay.sale = payment[p].sale
        BY <4>1, <4>2
      <4>4. payment'[p] = pay
        BY <3>1, <3>2, <4>1
      <4>5. q.pc = "settle" /\ HandlerOK(q)
        BY <1>0, <2>2 DEF SettleCommit, HandlersOK
      <4>6. ~q.dec.cash /\ (payment[p].sale = q.dec.sale \/ Invoiced(payment[p].sale))
        BY <3>2, <4>5 DEF HandlerOK
      <4>7. s = q.dec.sale
        BY <1>1, <4>6 DEF SaleOf
      <4> QED
        BY <4>3, <4>4, <4>6, <4>7
    <3>3. CASE p \notin q.seen
      BY <3>1, <3>3
    <3> QED
      BY <3>2, <3>3
  <2> QED
    BY <2>1, <2>2
<1>7. Pays(s, q.t)
  BY <1>3, <1>4, <1>5, <1>6 DEF Pays
<1> QED
  BY <1>7

\* At the counter a sale is opened, or made and paid for.
LEMMA CounterEffect ==
  ASSUME TypeOK, HandlersOK, Counter
  PROVE  \/ UNCHANGED <<payment, sales, docs>>
         \/ Opens
         \/ \E s : Pays(s, NoTrans) /\ s \notin DOMAIN sales /\ UNCHANGED <<payment, event>>
<1>1. /\ Len(sales) \in Nat /\ DOMAIN sales = 1 .. Len(sales)
  BY Tables
<1>2. ASSUME NEW c \in Carts, CreateSale(c) PROVE Opens
  <2>1. PICK x : x = [status |-> "open", total |-> c.total, payer |-> c.payer, recent |-> c.recent]
    OBVIOUS
  <2>2. x \in SaleRows /\ x.status = "open"
    BY <2>1, IngestAssumption DEF SaleRows
  <2>3. sales' = Append(sales, x) /\ UNCHANGED <<payment, docs>>
    BY <1>2, <2>1 DEF CreateSale
  <2>4. /\ DOMAIN sales' = 1 .. Len(sales) + 1 /\ \A i \in DOMAIN sales : sales'[i] = sales[i]
        /\ sales'[Len(sales) + 1] = x
    BY <2>2, <2>3, RowAdded DEF TypeOK, RowsOK
  <2>5. \A i \in DOMAIN sales' : i \in DOMAIN sales \/ i = Len(sales) + 1
    BY <1>1, <2>4
  <2>6. DOMAIN sales \subseteq DOMAIN sales'
    BY <1>1, <2>4
  <2> QED
    BY <2>2, <2>3, <2>4, <2>5, <2>6 DEF Opens
<1>3. ASSUME NEW c \in Carts, CreateCashSale(c)
      PROVE  \E s : Pays(s, NoTrans) /\ s \notin DOMAIN sales /\ UNCHANGED <<payment, event>>
  <2>1. PICK s \in Nat : s = Len(sales) + 1 /\ s \notin DOMAIN sales
    BY <1>1
  <2>2. /\ sales' = Append(sales, PaidSale(c.total)) /\ docs' = CreateInvoiceForSale(s, NoTrans)
        /\ UNCHANGED <<payment, event>> /\ c.total \in Nat
    BY <1>3, <2>1, IngestAssumption DEF CreateCashSale
  <2>3. /\ DOMAIN sales \subseteq DOMAIN sales'
        /\ \A x \in DOMAIN sales' : x \in DOMAIN sales \/ x = s
        /\ \A x \in DOMAIN sales : /\ sales'[x].total = sales[x].total
                                   /\ x # s => sales'[x] = sales[x]
                                   /\ sales[x].status = "paid" => sales'[x] = sales[x]
        /\ s \in DOMAIN sales' /\ sales'[s].status = "paid"
    BY <2>1, <2>2, Closes
  <2>4. \E doc \in DocRows : docs' = Append(docs, doc) /\ doc.kind = "INVOICE" /\ doc.sale = s /\ doc.pay = NoTrans
    BY <2>2, InvoiceMade
  <2>5. Pays(s, NoTrans)
    BY <2>2, <2>3, <2>4 DEF Pays
  <2> QED
    BY <2>1, <2>2, <2>5
<1> QED
  BY <1>2, <1>3 DEF Counter, CreateSTKRequest, VerifyShortcode, RejectShortcode, ReplayWebhook, tables

\* A document that is acknowledged.
LEMMA AckEffect ==
  ASSUME TypeOK, NEW i \in DOMAIN docs, Ack(i)
  PROVE  Acks(i)
<1>1. PICK x : x = [docs[i] EXCEPT !.acked = TRUE]
  OBVIOUS
<1>2. docs[i] \in DocRows
  BY Tables
<1>3. /\ x \in DocRows /\ x.sale = docs[i].sale /\ x.parent = docs[i].parent /\ x.kind = docs[i].kind
      /\ x.pay = docs[i].pay /\ x.acked
  BY <1>1, <1>2 DEF DocRows
<1>4. docs' = [docs EXCEPT ![i] = x] /\ UNCHANGED <<payment, sales>>
  BY <1>1 DEF Ack
<1>5. /\ DOMAIN docs' = DOMAIN docs /\ Len(docs') = Len(docs)
      /\ \A j \in DOMAIN docs : docs'[j] = IF j = i THEN x ELSE docs[j]
  BY <1>3, <1>4, RowReplaced DEF TypeOK, RowsOK
<1> QED
  BY <1>3, <1>4, <1>5 DEF Acks

\* The actions that leave payments, sales and documents alone.
Looks(h) ==
    \/ Callback(h) \/ StkIngest(h) \/ StkDuplicate(h) \/ MatchPayment(h) \/ NextSaleRef(h)
    \/ ApplyRefused(h) \/ ApplyDuplicate(h) \/ MarkProcessed(h) \/ NoteError(h) \/ Reconcile(h)
    \/ ConvertRefused(h) \/ Merchant(h) \/ TxFails(h) \/ Dies(h)
    \/ \E t \in Trans : ListUnprocessed(h, t)

\* Most of a handler's steps do.
LEMMA LooksEffect ==
  ASSUME NEW h \in Handlers, Looks(h)
  PROVE  UNCHANGED <<payment, sales, docs>>
<1>1. CASE Callback(h) \/ StkIngest(h)
  BY <1>1 DEF Callback, Confirmation, PullTransaction, StkResult, StkIngest, IngestC2B, tables
<1>2. CASE StkDuplicate(h) \/ NextSaleRef(h) \/ ApplyRefused(h) \/ ApplyDuplicate(h) \/ MatchPayment(h)
  BY <1>2 DEF StkDuplicate, NextSaleRef, ApplyRefused, ApplyDuplicate, MatchPayment, tables
<1>3. CASE MarkProcessed(h) \/ NoteError(h) \/ Reconcile(h) \/ ConvertRefused(h) \/ TxFails(h) \/ Dies(h)
  BY <1>3 DEF MarkProcessed, NoteError, Reconcile, ConvertRefused, TxFails, Dies, tables
<1>4. CASE Merchant(h)
  BY <1>4 DEF Merchant, Convert, Link, Settle, tables
<1>5. CASE \E t \in Trans : ListUnprocessed(h, t)
  BY <1>5 DEF ListUnprocessed, tables
<1> QED
  BY <1>1, <1>2, <1>3, <1>4, <1>5 DEF Looks

\* Whatever the step, the ledger changes in one of these ways.
LEMMA Effects ==
  ASSUME TypeOK, HandlersOK, [Next]_vars
  PROVE  \/ UNCHANGED <<payment, sales, docs>>
         \/ \E s, t : Pays(s, t)
         \/ Opens
         \/ Notes
         \/ Credits
         \/ \E i : Acks(i)
<1>1. CASE UNCHANGED vars
  BY <1>1 DEF vars
<1>2. ASSUME NEW h \in Handlers, Looks(h) PROVE UNCHANGED <<payment, sales, docs>>
  BY <1>2, LooksEffect
<1>3. ASSUME NEW h \in Handlers, ApplyPayment(h) PROVE Notes \/ \E s, t : Pays(s, t)
  <2>1. PICK q : q = hd[h]
    OBVIOUS
  <2> QED
    BY <1>3, <2>1, ApplyEffect
<1>4. ASSUME NEW h \in Handlers, ConvertCommit(h) \/ SettleCommit(h) PROVE \E s, t : Pays(s, t)
  BY <1>4, ConvertEffect
<1>5. ASSUME NEW h \in Handlers, ApplyReversal(h) PROVE Credits
  BY <1>5, Reverses DEF Credits
<1>6. CASE Next
  BY <1>2, <1>3, <1>4, <1>5, <1>6, CounterEffect, AckEffect DEF Next, Process, Sweep, Looks
<1> QED
  BY <1>1, <1>6

\* A document that is added is for its own sale and changes nothing for the others.
LEMMA OthersInvoices ==
  ASSUME TypeOK, NEW doc \in DocRows, docs' = Append(docs, doc), NEW x
  PROVE  /\ Invoiced(x) => Invoiced(x)'
         /\ doc.kind # "INVOICE" \/ doc.sale # x => (Invoiced(x)' => Invoiced(x))
         /\ doc.kind = "INVOICE" /\ doc.sale = x => Invoiced(x)'
<1>1. /\ DOMAIN docs \subseteq DOMAIN docs'
      /\ \A i \in DOMAIN docs' : i \in DOMAIN docs \/ i = Len(docs) + 1
      /\ Len(docs) + 1 \in DOMAIN docs'
      /\ \A i \in DOMAIN docs : docs'[i] = docs[i]
      /\ docs'[Len(docs) + 1] = doc
  BY DocAdded
<1> QED
  BY <1>1 DEF Invoiced, Invoices

\* Every step keeps payment, sale and invoice together.
LEMMA PaidIsInvoicedStep ==
  ASSUME TypeOK, HandlersOK, PaidIsInvoiced, [Next]_vars
  PROVE  PaidIsInvoiced'
<1> DEFINE SalesPart == \A x \in DOMAIN sales' : sales'[x].status = "paid" <=> Invoiced(x)'
           PaymentsPart == \A p \in Trans, x \in Nat :
              payment'[p].sale = x /\ payment'[p].status \in {"matched", "cash_sale"} => Invoiced(x)'
<1>0. SUFFICES SalesPart /\ PaymentsPart
  <2>1. TypeOK'
    BY TypeStep
  <2>2. Len(sales') \in Nat
    BY <2>1, LenProperties DEF TypeOK, RowsOK
  <2>3. \A p \in Trans : payment'[p].sale \in Nat
    BY <2>1, <2>2 DEF TypeOK, RowsOK
  <2> QED
    BY <2>3 DEF PaidIsInvoiced, Invoiced, Invoices
<1>1. \A x \in DOMAIN sales : sales[x].status = "paid" <=> Invoiced(x)
  BY DEF PaidIsInvoiced, Invoiced
<1>2. \A p \in Trans, x \in Nat :
         payment[p].sale = x /\ payment[p].status \in {"matched", "cash_sale"} => Invoiced(x)
  BY DEF PaidIsInvoiced, Invoiced
<1>3. CASE UNCHANGED <<payment, sales, docs>>
  BY <1>1, <1>2, <1>3 DEF Invoiced, Invoices
<1>4. ASSUME NEW s, NEW t, Pays(s, t) PROVE SalesPart /\ PaymentsPart
  <2>1. PICK doc \in DocRows : docs' = Append(docs, doc) /\ doc.kind = "INVOICE" /\ doc.sale = s
    BY <1>4 DEF Pays
  <2>2. Invoiced(s)' /\ \A x : /\ Invoiced(x) => Invoiced(x)'
                               /\ x # s => (Invoiced(x)' => Invoiced(x))
    BY <2>1, OthersInvoices
  <2>3. SalesPart
    BY <1>1, <1>4, <2>2 DEF Pays
  <2>4. PaymentsPart
    BY <1>2, <1>4, <2>2 DEF Pays
  <2> QED
    BY <2>3, <2>4
<1>5. CASE Opens
  <2>1. \A x : Invoiced(x)' <=> Invoiced(x)
    BY <1>5 DEF Opens, Invoiced, Invoices
  <2>2. \A x \in DOMAIN sales' : x \notin DOMAIN sales => ~Invoiced(x)
    BY DEF Invoiced, Invoices, TypeOK, RowsOK
  <2> QED
    BY <1>1, <1>2, <1>5, <2>1, <2>2 DEF Opens
<1>6. CASE Notes
  <2>1. \A x : Invoiced(x)' <=> Invoiced(x)
    BY <1>6 DEF Notes, Invoiced, Invoices
  <2> QED
    BY <1>1, <1>2, <1>6, <2>1 DEF Notes
<1>7. CASE Credits
  <2>1. \A x : Invoiced(x)' <=> Invoiced(x)
    <3>1. CASE UNCHANGED docs
      BY <3>1 DEF Invoiced, Invoices
    <3>2. CASE ~ UNCHANGED docs
      <4>1. PICK doc \in DocRows : docs' = Append(docs, doc) /\ doc.kind = "CREDIT_NOTE"
        BY <1>7, <3>2 DEF Credits
      <4> QED
        BY <4>1, OthersInvoices
    <3> QED
      BY <3>1, <3>2
  <2> QED
    BY <1>1, <1>2, <1>7, <2>1 DEF Credits
<1>8. ASSUME NEW i, Acks(i) PROVE SalesPart /\ PaymentsPart
  <2>1. \A x : Invoiced(x)' <=> Invoiced(x)
    BY <1>8 DEF Acks, Invoiced, Invoices
  <2> QED
    BY <1>1, <1>2, <1>8, <2>1 DEF Acks
<1> QED
  BY <1>3, <1>4, <1>5, <1>6, <1>7, <1>8, Effects

\* Payment, sale and invoice are one transaction (applyPayment, convertPayment,
\* settleSale): whatever the interleaving, a sale is paid exactly when it is
\* invoiced, and a payment that was matched is for an invoiced sale.
THEOREM PaidIsInvoicedHolds == Spec => []PaidIsInvoiced
<1>1. Init => PaidIsInvoiced
  BY DEF Init, PaidIsInvoiced, NoPayment
<1>2. PaidIsInvoiced /\ TypeOK /\ HandlersOK /\ [Next]_vars => PaidIsInvoiced'
  BY PaidIsInvoicedStep
<1> QED
  BY <1>1, <1>2, HandlersHold, PTL DEF Spec

\* A payment that is in the ledger stays there.
LEMMA RecordedStays ==
  ASSUME TypeOK, HandlersOK, [Next]_vars, NEW t \in Trans, Recorded(t)
  PROVE  Recorded(t)'
<1>1. CASE UNCHANGED <<payment, sales, docs>>
  BY <1>1 DEF Recorded
<1>2. ASSUME NEW s, NEW p, Pays(s, p) PROVE Recorded(t)'
  BY <1>2 DEF Pays, Recorded
<1>3. CASE Opens \/ Notes \/ Credits
  BY <1>3 DEF Opens, Notes, Credits, Recorded
<1>4. ASSUME NEW i, Acks(i) PROVE Recorded(t)'
  BY <1>4 DEF Acks, Recorded
<1> QED
  BY <1>1, <1>2, <1>3, <1>4, Effects

\* What may happen to an event: it is stored, refused, replayed, or marked once
\* the payment is in the ledger.
EventGoes(t) ==
    \/ event'[t] = event[t]
    \/ event[t].mark = "none" /\ event'[t].mark \in {"stored", "refused"}
    \/ event[t].mark # "none" /\ event'[t].in = event[t].in /\ event'[t].mark \in {"refused", "replayed"}
    \/ /\ event[t].mark # "none" /\ event'[t].in = event[t].in /\ event'[t].mark = "done"
       /\ event[t].in.kind = "c2b_confirmation" => Recorded(t)

\* Storing an event.
LEMMA StoreEvent ==
  ASSUME TypeOK, NEW h, NEW x \in Trans, NEW raw, NEW in, IngestC2B(h, x, raw, in), NEW t \in Trans
  PROVE  EventGoes(t)
<1>1. PICK e : e = [mark |-> IF gate THEN "stored" ELSE "refused", raw |-> raw, in |-> in]
  OBVIOUS
<1>2. e.mark \in {"stored", "refused"} /\ event[x].mark = "none" /\ event' = [event EXCEPT ![x] = e]
  BY <1>1 DEF IngestC2B
<1>3. event'[t] = IF t = x THEN e ELSE event[t]
  BY <1>2 DEF TypeOK, RowsOK
<1> QED
  BY <1>2, <1>3 DEF EventGoes

\* Setting the mark of an event.
LEMMA MarkEvent ==
  ASSUME TypeOK, NEW x \in Trans, NEW m, event' = [event EXCEPT ![x].mark = m], NEW t \in Trans
  PROVE  /\ t # x => event'[t] = event[t]
         /\ event'[x].mark = m /\ event'[x].in = event[x].in
<1>1. PICK e : e = [event[x] EXCEPT !.mark = m]
  OBVIOUS
<1>2. event[x] \in EventRows
  BY DEF TypeOK, RowsOK
<1>3. e.mark = m /\ e.in = event[x].in
  BY <1>1, <1>2 DEF EventRows, Processed
<1>4. event' = [event EXCEPT ![x] = e]
  BY <1>1
<1> QED
  BY <1>3, <1>4 DEF TypeOK, RowsOK

\* No step does anything else to an event.
LEMMA EventEffect ==
  ASSUME TypeOK, HandlersOK, [Next]_vars, NEW t \in Trans
  PROVE  EventGoes(t)
<1>1. CASE UNCHANGED event
  BY <1>1 DEF EventGoes
<1>2. ASSUME NEW h \in Handlers, Callback(h) PROVE EventGoes(t)
  <2>1. CASE \E x \in Trans, in \in Payloads : Confirmation(h, x, in) \/ PullTransaction(h, x, in)
    BY <2>1, StoreEvent DEF Confirmation, PullTransaction
  <2>2. CASE \E r \in DOMAIN request, success \in BOOLEAN : StkResult(h, r, success)
    BY <1>1, <2>2 DEF StkResult
  <2> QED
    BY <1>2, <2>1, <2>2 DEF Callback
<1>3. ASSUME NEW h \in Handlers, StkIngest(h) PROVE EventGoes(t)
  <2>1. hd[h].t \in Trans
    BY <1>3 DEF StkIngest, HandlersOK, HandlerOK
  <2> QED
    BY <1>3, <2>1, StoreEvent DEF StkIngest
<1>4. ASSUME NEW h \in Handlers, MarkProcessed(h) PROVE EventGoes(t)
  <2>1. PICK x : x = hd[h].t
    OBVIOUS
  <2>2. /\ x \in Trans /\ event[x].mark # "none"
        /\ event[x].in.kind = "c2b_confirmation" => Recorded(x)
    BY <1>4, <2>1 DEF MarkProcessed, HandlersOK, HandlerOK, OnEvent
  <2>3. event' = [event EXCEPT ![x].mark = "done"]
    BY <1>4, <2>1 DEF MarkProcessed
  <2> QED
    BY <2>2, <2>3, MarkEvent DEF EventGoes
<1>5. ASSUME NEW h \in Handlers, Reconcile(h) PROVE EventGoes(t)
  <2>1. PICK x : x = hd[h].t
    OBVIOUS
  <2>2. x \in Trans /\ event[x].mark # "none"
    BY <1>5, <2>1 DEF Reconcile, HandlersOK, HandlerOK, OnEvent
  <2>3. UNCHANGED event \/ event' = [event EXCEPT ![x].mark = "refused"]
    BY <1>5, <2>1 DEF Reconcile
  <2> QED
    BY <1>1, <2>2, <2>3, MarkEvent DEF EventGoes
<1>6. ASSUME NEW h \in Handlers,
             \/ StkDuplicate(h) \/ MatchPayment(h) \/ NextSaleRef(h) \/ ApplyRefused(h) \/ ApplyDuplicate(h)
             \/ ApplyPayment(h) \/ ApplyReversal(h) \/ NoteError(h) \/ ConvertRefused(h) \/ ConvertCommit(h)
             \/ SettleCommit(h)
      PROVE  UNCHANGED event
  BY <1>6 DEF StkDuplicate, MatchPayment, NextSaleRef, ApplyRefused, ApplyDuplicate, ApplyPayment, ApplyReversal,
              NoteError, ConvertRefused, ConvertCommit, SettleCommit
<1>7. ASSUME NEW h \in Handlers, Merchant(h) \/ TxFails(h) \/ Dies(h) \/ \E x \in Trans : ListUnprocessed(h, x)
      PROVE  UNCHANGED event
  BY <1>7 DEF Merchant, Convert, Link, Settle, TxFails, Dies, ListUnprocessed
<1>r. ASSUME NEW x \in Trans, ReplayWebhook(x) PROVE EventGoes(t)
  <2>1. PICK m \in {"refused", "replayed"} : event' = [event EXCEPT ![x].mark = m]
    BY <1>r DEF ReplayWebhook, ReplayAnswers
  <2> QED
    BY <1>r, <2>1, MarkEvent DEF ReplayWebhook, EventGoes
<1>8. CASE Counter \/ \E i \in DOMAIN docs : Ack(i)
  <2>1. UNCHANGED event \/ \E x \in Trans : ReplayWebhook(x)
    BY <1>8 DEF Counter, CreateSale, CreateCashSale, CreateSTKRequest, VerifyShortcode, RejectShortcode, Ack
  <2> QED
    BY <1>1, <1>r, <2>1
<1>9. ASSUME NEW h \in Handlers, Process(h) PROVE EventGoes(t)
  BY <1>1, <1>3, <1>4, <1>5, <1>6, <1>9 DEF Process
<1>10. CASE Next
  BY <1>1, <1>2, <1>7, <1>8, <1>9, <1>10 DEF Next, Sweep
<1>11. CASE UNCHANGED vars
  BY <1>1, <1>11 DEF vars
<1> QED
  BY <1>10, <1>11

\* A handler or the reconciler ticks an event off only when its payment is in the
\* ledger (ProcessStoredC2B), whatever crashes, fails, runs twice or is replayed
\* meanwhile.  The mark of a replay itself rests on nothing (the run replay).
THEOREM MarkedMeansLedgeredHolds == Spec => []MarkedMeansLedgered
<1>1. Init => MarkedMeansLedgered
  BY DEF Init, MarkedMeansLedgered
<1>2. ASSUME MarkedMeansLedgered, TypeOK, HandlersOK, [Next]_vars PROVE MarkedMeansLedgered'
  <2> SUFFICES ASSUME NEW t \in Trans, event'[t].mark = "done", event'[t].in.kind = "c2b_confirmation"
               PROVE  payment'[t].status # "none"
    BY DEF MarkedMeansLedgered
  <2>1. EventGoes(t)
    BY <1>2, EventEffect
  <2>2. Recorded(t)
    BY <1>2, <2>1 DEF EventGoes, MarkedMeansLedgered, Recorded
  <2>3. Recorded(t)'
    BY <1>2, <2>2, RecordedStays
  <2> QED
    BY <2>3 DEF Recorded
<1> QED
  BY <1>1, <1>2, HandlersHold, PTL DEF Spec

\* How many documents there are after a step.
LEMMA OneDocAtATime ==
  ASSUME TypeOK, HandlersOK, [Next]_vars
  PROVE  Len(docs') \in {Len(docs), Len(docs) + 1}
<1>1. ASSUME NEW doc \in DocRows, docs' = Append(docs, doc) PROVE Len(docs') = Len(docs) + 1
  BY <1>1, DocAdded
<1>2. ASSUME NEW s, NEW p, Pays(s, p) PROVE Len(docs') = Len(docs) + 1
  BY <1>1, <1>2 DEF Pays
<1>3. CASE Credits
  BY <1>1, <1>3 DEF Credits
<1>4. ASSUME NEW i, Acks(i) PROVE Len(docs') = Len(docs)
  BY <1>4 DEF Acks
<1>5. CASE UNCHANGED docs
  BY <1>5
<1> QED
  BY <1>2, <1>3, <1>4, <1>5, Effects DEF Opens, Notes

\* Nothing is taken back: no payment leaves the ledger, no paid sale changes,
\* no document disappears and no processed event is reopened, in any step.
THEOREM LedgerOnlyGrowsHolds == Spec => LedgerOnlyGrows
<1> DEFINE Grows ==
       /\ \A t \in Trans : payment[t].status # "none" => payment'[t].status # "none"
       /\ \A s \in DOMAIN sales : sales[s].status = "paid" => sales'[s] = sales[s]
       /\ Len(docs') \in {Len(docs), Len(docs) + 1}
       /\ \A t \in Trans : event[t].mark \in Processed => event'[t].mark \in Processed
<1>1. ASSUME TypeOK, HandlersOK, [Next]_vars PROVE [Grows]_vars
  <2>1. \A t \in Trans : payment[t].status # "none" => payment'[t].status # "none"
    BY <1>1, RecordedStays DEF Recorded
  <2>2. \A s \in DOMAIN sales : sales[s].status = "paid" => sales'[s] = sales[s]
    BY <1>1, Effects DEF Pays, Opens, Notes, Credits, Acks
  <2>3. Len(docs') \in {Len(docs), Len(docs) + 1}
    BY <1>1, OneDocAtATime
  <2>4. \A t \in Trans : event[t].mark \in Processed => event'[t].mark \in Processed
    BY <1>1, EventEffect DEF EventGoes, Processed
  <2> QED
    BY <2>1, <2>2, <2>3, <2>4
<1> QED
  BY <1>1, HandlersHold, PTL DEF Spec, LedgerOnlyGrows

\* A credit note that is there keeps its invoice; one that is new has one.
LEMMA CreditBackedStep ==
  ASSUME TypeOK, HandlersOK, CreditBacked, [Next]_vars
  PROVE  CreditBacked'
<1> DEFINE Good(c, i) == i \in 1 .. c - 1 /\ docs'[i].kind = "INVOICE" /\ docs'[i].acked /\ docs'[i].sale = docs'[c].sale
<1> SUFFICES ASSUME NEW c \in DOMAIN docs', docs'[c].kind = "CREDIT_NOTE"
             PROVE  Good(c, docs'[c].parent)
  BY DEF CreditBacked
<1>0. Len(docs) \in Nat /\ DOMAIN docs = 1 .. Len(docs)
  BY Tables
<1>1. ASSUME c \in DOMAIN docs, docs[c].kind = "CREDIT_NOTE", NEW i, i = docs[c].parent
      PROVE  /\ i \in 1 .. c - 1 /\ docs[i].kind = "INVOICE" /\ docs[i].acked /\ docs[i].sale = docs[c].sale
             /\ i \in DOMAIN docs
  BY <1>0, <1>1 DEF CreditBacked
<1>2. CASE UNCHANGED docs
  BY <1>1, <1>2
<1>3. ASSUME NEW doc \in DocRows, docs' = Append(docs, doc),
             \/ doc.kind = "INVOICE"
             \/ \E i \in DOMAIN docs : /\ doc.parent = i /\ doc.sale = docs[i].sale
                                       /\ docs[i].kind = "INVOICE" /\ docs[i].acked
      PROVE  Good(c, docs'[c].parent)
  <2>1. /\ \A i \in DOMAIN docs' : i \in DOMAIN docs \/ i = Len(docs) + 1
        /\ \A i \in DOMAIN docs : docs'[i] = docs[i]
        /\ docs'[Len(docs) + 1] = doc
    BY <1>3, DocAdded
  <2>2. CASE c \in DOMAIN docs
    <3>1. docs'[c] = docs[c]
      BY <2>1, <2>2
    <3> QED
      BY <1>1, <2>1, <2>2, <3>1
  <2>3. CASE c = Len(docs) + 1
    <3>1. docs'[c] = doc
      BY <2>1, <2>3
    <3>2. PICK i \in DOMAIN docs : doc.parent = i /\ doc.sale = docs[i].sale /\ docs[i].kind = "INVOICE" /\ docs[i].acked
      BY <1>3, <3>1
    <3>3. i \in 1 .. c - 1
      BY <1>0, <2>3
    <3> QED
      BY <2>1, <3>1, <3>2, <3>3
  <2> QED
    BY <2>1, <2>2, <2>3
<1>4. ASSUME NEW a, Acks(a) PROVE Good(c, docs'[c].parent)
  <2>1. /\ c \in DOMAIN docs /\ docs'[c].kind = docs[c].kind /\ docs'[c].parent = docs[c].parent
        /\ docs'[c].sale = docs[c].sale
    BY <1>4 DEF Acks
  <2>2. PICK i : i = docs[c].parent
    OBVIOUS
  <2>3. /\ i \in 1 .. c - 1 /\ docs[i].kind = "INVOICE" /\ docs[i].acked /\ docs[i].sale = docs[c].sale
        /\ i \in DOMAIN docs
    BY <1>1, <2>1, <2>2
  <2>4. docs'[i].kind = "INVOICE" /\ docs'[i].acked /\ docs'[i].sale = docs[c].sale
    BY <1>4, <2>3 DEF Acks
  <2> QED
    BY <2>1, <2>2, <2>3, <2>4
<1>5. CASE Credits
  BY <1>2, <1>3, <1>5 DEF Credits
<1>6. ASSUME NEW s, NEW t, Pays(s, t) PROVE Good(c, docs'[c].parent)
  BY <1>3, <1>6 DEF Pays
<1> QED
  BY <1>2, <1>4, <1>5, <1>6, Effects DEF Opens, Notes

\* A credit note is only ever made out for an acknowledged invoice of the sale
\* whose payment was reversed (applyReversal), and neither changes afterwards.
THEOREM CreditBackedHolds == Spec => []CreditBacked
<1>1. Init => CreditBacked
  BY DEF Init, CreditBacked
<1>2. CreditBacked /\ TypeOK /\ HandlersOK /\ [Next]_vars => CreditBacked'
  BY CreditBackedStep
<1> QED
  BY <1>1, <1>2, HandlersHold, PTL DEF Spec

-----------------------------------------------------------------------------
(* Without the merchant's conversions, links and settlements: what the     *)
(* matcher and the reconciler do on their own.                             *)

\* How a handler's local state changes: it stays, it starts afresh, it goes on
\* with the decision it has, it takes the number of the next sale, or it
\* decides.
Turns(g) ==
    \/ hd'[g] = hd[g]
    \/ hd'[g].pc \in {"idle", "stk", "listed", "resolved"} /\ hd'[g].dec.rule = "none"
    \/ hd'[g].pc \in {"resolved", "applied", "failed"} /\ hd'[g].dec = hd[g].dec
    \/ /\ NextSaleRef(g) /\ hd'[g].dec = hd[g].dec /\ hd'[g].t = hd[g].t /\ hd'[g].total = hd[g].total
       /\ hd'[g].pc = IF hd[g].dec.rule = "manual" THEN "convert" ELSE "matched"
    \/ MatchPayment(g)
    \/ Merchant(g)

\* Only the acting handler changes.
LEMMA BecomesIs ==
  ASSUME TypeOK, NEW h \in Handlers, NEW q, Becomes(h, q), NEW g \in Handlers
  PROVE  hd'[g] = IF g = h THEN q ELSE hd[g]
BY DEF Becomes, TypeOK

\* A fresh start carries no decision.
LEMMA FreshIs ==
  /\ Idle.pc = "idle" /\ Idle.dec.rule = "none"
  /\ \A t, r : LET q == [Idle EXCEPT !.pc = "stk", !.t = t, !.dec.stk = r] IN q.pc = "stk" /\ q.dec.rule = "none"
  /\ \A t : LET q == [Idle EXCEPT !.pc = "listed", !.t = t] IN q.pc = "listed" /\ q.dec.rule = "none"
  /\ \A t : LET q == [Idle EXCEPT !.pc = "resolved", !.t = t] IN q.pc = "resolved" /\ q.dec.rule = "none"
<1>1. NoDecision = [status |-> "none", rule |-> "none", sale |-> 0, stk |-> 0, cash |-> FALSE]
  BY DEF NoDecision, Decision, NoSale, NoRequest
<1>2. Idle.pc = "idle" /\ Idle.dec = NoDecision
  BY DEF Idle
<1>3. ASSUME NEW t, NEW r
      PROVE  LET q == [Idle EXCEPT !.pc = "stk", !.t = t, !.dec.stk = r] IN q.pc = "stk" /\ q.dec.rule = "none"
  <2>1. PICK d : d = [NoDecision EXCEPT !.stk = r]
    OBVIOUS
  <2>2. d.rule = "none"
    BY <1>1, <2>1
  <2>3. PICK q : q = [Idle EXCEPT !.pc = "stk", !.t = t, !.dec.stk = r]
    OBVIOUS
  <2>4. q = [pc |-> "stk", t |-> t, dec |-> [NoDecision EXCEPT !.stk = r], draft |-> 0, total |-> 0, seen |-> {}]
    BY <2>3 DEF Idle
  <2>5. q.pc = "stk" /\ q.dec = d
    BY <2>1, <2>4
  <2> QED
    BY <2>2, <2>3, <2>5
<1>4. ASSUME NEW t, NEW pc
      PROVE  LET q == [Idle EXCEPT !.pc = pc, !.t = t] IN q.pc = pc /\ q.dec.rule = "none"
  <2>1. PICK q : q = [Idle EXCEPT !.pc = pc, !.t = t]
    OBVIOUS
  <2>2. q.pc = pc /\ q.dec = NoDecision
    BY <2>1 DEF Idle
  <2> QED
    BY <1>1, <2>1, <2>2
<1> QED
  BY <1>1, <1>2, <1>3, <1>4

\* A handler that only moves its program counter.
LEMMA GoesOn ==
  ASSUME TypeOK, NEW h \in Handlers, NEW pc, Becomes(h, [hd[h] EXCEPT !.pc = pc]), NEW g \in Handlers
  PROVE  hd'[g] = hd[g] \/ (g = h /\ hd'[g].pc = pc /\ hd'[g].dec = hd[g].dec)
<1>1. PICK p \in HandlerRecords : p = hd[h]
  BY DEF TypeOK
<1>2. PICK q : q = [p EXCEPT !.pc = pc]
  OBVIOUS
<1>3. q.pc = pc /\ q.dec = p.dec
  BY <1>2 DEF HandlerRecords
<1>4. Becomes(h, q)
  BY <1>1, <1>2
<1>5. hd'[g] = IF g = h THEN q ELSE hd[g]
  BY <1>4, BecomesIs
<1> QED
  BY <1>1, <1>3, <1>5

\* Storing an event starts its handler afresh.
LEMMA StoreTurns ==
  ASSUME TypeOK, NEW h \in Handlers, NEW t, NEW raw, NEW in, IngestC2B(h, t, raw, in), NEW g \in Handlers
  PROVE  Turns(g)
<1>1. CASE gate
  <2>1. PICK q : q = [Idle EXCEPT !.pc = "resolved", !.t = t]
    OBVIOUS
  <2>2. Becomes(h, q)
    BY <1>1, <2>1 DEF IngestC2B
  <2>3. q.pc = "resolved" /\ q.dec.rule = "none"
    BY <2>1, FreshIs
  <2> QED
    BY <2>2, <2>3, BecomesIs DEF Turns
<1>2. CASE ~gate
  <2>1. Becomes(h, Idle)
    BY <1>2 DEF IngestC2B
  <2> QED
    BY <2>1, BecomesIs, FreshIs DEF Turns
<1> QED
  BY <1>1, <1>2

\* Whatever the step, every handler turns in one of these ways.
LEMMA HandlersTurn ==
  ASSUME TypeOK, HandlersOK, [Next]_vars, NEW g \in Handlers
  PROVE  Turns(g)
<1>1. CASE UNCHANGED hd
  BY <1>1 DEF Turns
<1>2. ASSUME NEW h \in Handlers, Becomes(h, Idle) PROVE Turns(g)
  BY <1>2, BecomesIs, FreshIs DEF Turns
<1>3. ASSUME NEW h \in Handlers, NEW pc \in {"resolved", "applied", "failed"}, Becomes(h, [hd[h] EXCEPT !.pc = pc])
      PROVE  Turns(g)
  BY <1>3, GoesOn DEF Turns
<1>4. ASSUME NEW h \in Handlers, Callback(h) PROVE Turns(g)
  <2>1. CASE \E t \in Trans, in \in Payloads : Confirmation(h, t, in) \/ PullTransaction(h, t, in)
    BY <2>1, StoreTurns DEF Confirmation, PullTransaction
  <2>2. ASSUME NEW r \in DOMAIN request, NEW success \in BOOLEAN, StkResult(h, r, success) PROVE Turns(g)
    <3>1. CASE success
      <4>1. PICK q : q = [Idle EXCEPT !.pc = "stk", !.t = request[r].receipt, !.dec.stk = r]
        OBVIOUS
      <4>2. Becomes(h, q)
        BY <2>2, <3>1, <4>1 DEF StkResult
      <4>3. q.pc = "stk" /\ q.dec.rule = "none"
        BY <4>1, FreshIs
      <4> QED
        BY <4>2, <4>3, BecomesIs DEF Turns
    <3>2. CASE ~success
      BY <1>2, <2>2, <3>2 DEF StkResult
    <3> QED
      BY <3>1, <3>2
  <2> QED
    BY <1>4, <2>1, <2>2 DEF Callback
<1>5. ASSUME NEW h \in Handlers, StkIngest(h) PROVE Turns(g)
  BY <1>5, StoreTurns DEF StkIngest
<1>6. ASSUME NEW h \in Handlers,
             \/ StkDuplicate(h) \/ MarkProcessed(h) \/ NoteError(h) \/ Dies(h) \/ ConvertRefused(h)
             \/ ConvertCommit(h) \/ SettleCommit(h)
      PROVE  Turns(g)
  BY <1>2, <1>6 DEF StkDuplicate, MarkProcessed, NoteError, Dies, ConvertRefused, ConvertCommit, SettleCommit
<1>7. ASSUME NEW h \in Handlers, Reconcile(h) PROVE Turns(g)
  BY <1>2, <1>3, <1>7 DEF Reconcile
<1>8. ASSUME NEW h \in Handlers,
             ApplyRefused(h) \/ ApplyDuplicate(h) \/ ApplyPayment(h) \/ ApplyReversal(h) \/ TxFails(h)
      PROVE  Turns(g)
  BY <1>3, <1>8 DEF ApplyRefused, ApplyDuplicate, ApplyPayment, ApplyReversal, TxFails
<1>9. ASSUME NEW h \in Handlers, NEW t \in Trans, ListUnprocessed(h, t) PROVE Turns(g)
  <2>1. PICK q : q = [Idle EXCEPT !.pc = "listed", !.t = t]
    OBVIOUS
  <2>2. Becomes(h, q)
    BY <1>9, <2>1 DEF ListUnprocessed
  <2>3. q.pc = "listed" /\ q.dec.rule = "none"
    BY <2>1, FreshIs
  <2> QED
    BY <2>2, <2>3, BecomesIs DEF Turns
<1>10. ASSUME NEW h \in Handlers, NextSaleRef(h) PROVE Turns(g)
  <2>1. PICK p \in HandlerRecords : p = hd[h]
    BY DEF TypeOK
  <2>2. PICK pc : pc = IF p.dec.rule = "manual" THEN "convert" ELSE "matched"
    OBVIOUS
  <2>3. PICK n : n = Len(sales) + 1
    OBVIOUS
  <2>4. PICK q : q = [p EXCEPT !.pc = pc, !.draft = n]
    OBVIOUS
  <2>5. q.pc = pc /\ q.dec = p.dec /\ q.t = p.t /\ q.total = p.total
    BY <2>4 DEF HandlerRecords
  <2>6. Becomes(h, q)
    BY <1>10, <2>1, <2>2, <2>3, <2>4 DEF NextSaleRef
  <2> QED
    BY <1>10, <2>1, <2>2, <2>5, <2>6, BecomesIs DEF Turns
<1>11. ASSUME NEW h \in Handlers, MatchPayment(h) PROVE Turns(g)
  <2>1. CASE g = h
    BY <1>11, <2>1 DEF Turns
  <2>2. CASE g # h
    <3>1. \E q : Becomes(h, q)
      BY <1>11 DEF MatchPayment
    <3> QED
      BY <2>2, <3>1, BecomesIs DEF Turns
  <2> QED
    BY <2>1, <2>2
<1>12. ASSUME NEW h \in Handlers, Merchant(h) PROVE Turns(g)
  <2>1. CASE g = h
    BY <1>12, <2>1 DEF Turns
  <2>2. CASE g # h
    <3>1. \E q : Becomes(h, q)
      BY <1>12 DEF Merchant, Convert, Link, Settle
    <3> QED
      BY <2>2, <3>1, BecomesIs DEF Turns
  <2> QED
    BY <2>1, <2>2
<1>13. CASE Counter \/ \E i \in DOMAIN docs : Ack(i)
  BY <1>1, <1>13 DEF Counter, CreateSale, CreateCashSale, CreateSTKRequest, VerifyShortcode, RejectShortcode,
     ReplayWebhook, Ack
<1>14. ASSUME NEW h \in Handlers, Process(h) PROVE Turns(g)
  BY <1>5, <1>6, <1>7, <1>8, <1>10, <1>11, <1>14 DEF Process
<1>15. CASE Next
  BY <1>4, <1>6, <1>8, <1>9, <1>12, <1>13, <1>14, <1>15 DEF Next, Sweep
<1>16. CASE UNCHANGED vars
  BY <1>1, <1>16 DEF vars
<1> QED
  BY <1>15, <1>16

\* What Match wrote down.
LEMMA Decides ==
  ASSUME TypeOK, HandlersOK, NEW h \in Handlers, MatchPayment(h)
  PROVE  LET q == hd'[h]
             in == event[hd[h].t].in
         IN  /\ q.pc \in {"ref", "matched"} /\ q.t = hd[h].t /\ q.t \in Trans /\ event[q.t].mark # "none"
             /\ in \in Payload /\ q.total = in.amount /\ q.dec = Match(in.amount, Lookups(in), AutoInvoice)
             /\ UNCHANGED <<event, tables>>
             /\ q.pc = IF q.dec.cash THEN "ref" ELSE "matched"
<1>0. PICK p \in HandlerRecords : p = hd[h]
  BY DEF TypeOK
<1>1. p.pc = "resolved" /\ p.t \in Trans /\ event[p.t].mark # "none"
  BY <1>0 DEF MatchPayment, HandlersOK, HandlerOK, OnEvent
<1>2. PICK in \in Payload : in = event[p.t].in
  BY <1>1 DEF TypeOK, RowsOK, EventRows
<1>3. PICK d : d = Match(in.amount, Lookups(in), AutoInvoice)
  OBVIOUS
<1>4. PICK pc \in {"ref", "matched"} : pc = IF d.cash THEN "ref" ELSE "matched"
  OBVIOUS
<1>5. PICK q : q = [p EXCEPT !.pc = pc, !.dec = d, !.total = in.amount]
  OBVIOUS
<1>6. q.pc = pc /\ q.t = p.t /\ q.dec = d /\ q.total = in.amount
  BY <1>5 DEF HandlerRecords
<1>7. Becomes(h, q) /\ UNCHANGED <<event, tables>>
  <2> DEFINE I == event[hd[h].t].in
             D == Match(I.amount, Lookups(I), AutoInvoice)
  <2>1. Becomes(h, [hd[h] EXCEPT !.pc = IF D.cash THEN "ref" ELSE "matched", !.dec = D, !.total = I.amount])
    BY DEF MatchPayment
  <2>2. I = in
    BY <1>0, <1>2
  <2> HIDE DEF I
  <2>3. D = d
    BY <1>3, <2>2
  <2> HIDE DEF D
  <2>4. Becomes(h, [hd[h] EXCEPT !.pc = pc, !.dec = d, !.total = in.amount])
    BY <1>4, <2>1, <2>2, <2>3
  <2>5. UNCHANGED <<event, tables>>
    BY DEF MatchPayment
  <2> QED
    BY <1>0, <1>5, <2>4, <2>5
<1>8. hd'[h] = q
  BY <1>7, BecomesIs
<1> QED
  BY <1>0, <1>1, <1>2, <1>3, <1>4, <1>6, <1>7, <1>8

\* The merchant neither converts nor links nor settles.
HandsOff == Ops \cap {"convert", "link", "settle"} = {}

\* Then no handler does so.
LEMMA NoManualStep ==
  ASSUME HandsOff, TypeOK, HandlersOK, NoManual, [Next]_vars
  PROVE  NoManual'
<1> SUFFICES ASSUME NEW g \in Handlers PROVE hd'[g].pc \notin {"convert", "settle"} /\ hd'[g].dec.rule # "manual"
  BY DEF NoManual
<1>1. hd[g].pc \notin {"convert", "settle"} /\ hd[g].dec.rule # "manual"
  BY DEF NoManual
<1>2. Turns(g)
  BY HandlersTurn
<1>3. ~Merchant(g)
  BY DEF Merchant, Convert, Link, Settle, Operate, HandsOff
<1>4. CASE MatchPayment(g)
  <2>1. PICK in \in Payload : hd'[g].dec = Match(in.amount, Lookups(in), AutoInvoice) /\ hd'[g].pc \in {"ref", "matched"}
    BY <1>4, Decides
  <2>2. hd'[g].dec.rule # "manual"
    BY <2>1, MatchOK
  <2> QED
    BY <2>1, <2>2
<1> QED
  BY <1>1, <1>2, <1>3, <1>4 DEF Turns

\* An invoice for a payment was there, or the payment is being applied.
LEMMA InvoiceComes ==
  ASSUME TypeOK, HandlersOK, NoManual, [Next]_vars,
         NEW i \in DOMAIN docs', docs'[i].kind = "INVOICE", docs'[i].pay # NoTrans
  PROVE  \/ /\ i \in DOMAIN docs /\ docs[i].kind = "INVOICE"
            /\ docs'[i].pay = docs[i].pay /\ docs'[i].sale = docs[i].sale
         \/ /\ i = Len(docs) + 1 /\ i \notin DOMAIN docs
            /\ \E h \in Handlers : /\ ApplyPayment(h) /\ docs'[i].pay = hd[h].t /\ docs'[i].sale = SaleOf(hd[h])
                                   /\ hd[h].dec.status \in {"matched", "cash_sale"}
<1> DEFINE Was == /\ i \in DOMAIN docs /\ docs[i].kind = "INVOICE"
                  /\ docs'[i].pay = docs[i].pay /\ docs'[i].sale = docs[i].sale
           New == /\ i = Len(docs) + 1 /\ i \notin DOMAIN docs
                  /\ \E h \in Handlers : /\ ApplyPayment(h) /\ docs'[i].pay = hd[h].t /\ docs'[i].sale = SaleOf(hd[h])
                                         /\ hd[h].dec.status \in {"matched", "cash_sale"}
<1> SUFFICES Was \/ New
  OBVIOUS
<1>1. CASE UNCHANGED docs
  BY <1>1
<1>2. ASSUME NEW doc \in DocRows, docs' = Append(docs, doc)
      PROVE  Was \/ (i = Len(docs) + 1 /\ i \notin DOMAIN docs /\ docs'[i] = doc)
  BY <1>2, DocAdded
<1>3. ASSUME NEW h \in Handlers, ApplyPayment(h) PROVE Was \/ New
  <2>1. PICK q : q = hd[h]
    OBVIOUS
  <2>2. IF q.dec.status \in {"matched", "cash_sale"} THEN Pays(SaleOf(q), q.t) ELSE Notes
    BY <1>3, <2>1, ApplyEffect
  <2>3. CASE q.dec.status \in {"matched", "cash_sale"}
    <3>1. PICK doc \in DocRows : docs' = Append(docs, doc) /\ doc.sale = SaleOf(q) /\ doc.pay = q.t
      BY <2>2, <2>3 DEF Pays
    <3>2. CASE Was
      BY <3>2
    <3>3. CASE i = Len(docs) + 1 /\ i \notin DOMAIN docs /\ docs'[i] = doc
      <4>1. docs'[i].pay = hd[h].t /\ docs'[i].sale = SaleOf(hd[h]) /\ hd[h].dec.status \in {"matched", "cash_sale"}
        BY <2>1, <2>3, <3>1, <3>3
      <4> QED
        BY <1>3, <3>3, <4>1
    <3> QED
      BY <1>2, <3>1, <3>2, <3>3
  <2>4. CASE q.dec.status \notin {"matched", "cash_sale"}
    BY <1>1, <2>2, <2>4 DEF Notes
  <2> QED
    BY <2>3, <2>4
<1>4. ASSUME NEW h \in Handlers, ConvertCommit(h) \/ SettleCommit(h) PROVE FALSE
  BY <1>4 DEF ConvertCommit, SettleCommit, NoManual
<1>5. ASSUME NEW h \in Handlers, ApplyReversal(h) PROVE Was
  <2>1. UNCHANGED docs \/ \E doc \in DocRows : docs' = Append(docs, doc) /\ doc.kind = "CREDIT_NOTE"
    BY <1>5, Reverses
  <2> QED
    BY <1>1, <1>2, <2>1
<1>6. ASSUME NEW h \in Handlers, Looks(h) PROVE Was
  BY <1>1, <1>6, LooksEffect
<1>7. CASE Counter
  <2>1. CASE Opens
    BY <1>1, <2>1 DEF Opens
  <2>2. ASSUME NEW s, Pays(s, NoTrans) PROVE Was
    <3>1. PICK doc \in DocRows : docs' = Append(docs, doc) /\ doc.pay = NoTrans
      BY <2>2 DEF Pays
    <3> QED
      BY <1>2, <3>1
  <2> QED
    BY <1>1, <1>7, <2>1, <2>2, CounterEffect
<1>8. ASSUME NEW j \in DOMAIN docs, Ack(j) PROVE Was
  <2>1. Acks(j)
    BY <1>8, AckEffect
  <2> QED
    BY <2>1 DEF Acks
<1>9. CASE UNCHANGED vars
  BY <1>1, <1>9 DEF vars
<1>10. CASE Next
  <2>1. ASSUME NEW h \in Handlers, Process(h) PROVE Was \/ New
    BY <1>3, <1>4, <1>5, <1>6, <2>1 DEF Process, Looks
  <2>2. ASSUME NEW h \in Handlers,
               Callback(h) \/ Merchant(h) \/ TxFails(h) \/ Dies(h) \/ \E t \in Trans : ListUnprocessed(h, t)
        PROVE  Was
    BY <1>6, <2>2 DEF Looks
  <2> HIDE DEF Was, New
  <2> QED
    BY <1>7, <1>8, <1>10, <2>1, <2>2 DEF Next, Sweep
<1> QED
  BY <1>9, <1>10

\* A payment that is behind an invoice is in the ledger.
LEMMA InvoicedIsLedgeredStep ==
  ASSUME TypeOK, HandlersOK, NoManual, InvoicedIsLedgered, [Next]_vars
  PROVE  InvoicedIsLedgered'
<1> SUFFICES ASSUME NEW i \in DOMAIN docs', docs'[i].kind = "INVOICE", docs'[i].pay # NoTrans, NEW t, t = docs'[i].pay
             PROVE  Recorded(t)' /\ event'[t].mark # "none"
  BY DEF InvoicedIsLedgered, Recorded
<1>1. TypeOK' /\ t \in Trans
  <2>1. TypeOK'
    BY TypeStep
  <2>2. docs'[i] \in DocRows
    BY <2>1, LenProperties DEF TypeOK, RowsOK
  <2> QED
    BY <2>1, <2>2 DEF DocRows
<1>2. ASSUME Recorded(t), event[t].mark # "none" PROVE Recorded(t)' /\ event'[t].mark # "none"
  <2>1. EventGoes(t)
    BY <1>1, EventEffect
  <2> QED
    BY <1>1, <1>2, <2>1, RecordedStays DEF EventGoes
<1>3. CASE i \in DOMAIN docs /\ docs[i].kind = "INVOICE" /\ docs'[i].pay = docs[i].pay
  BY <1>2, <1>3 DEF InvoicedIsLedgered
<1>4. ASSUME NEW h \in Handlers, ApplyPayment(h), docs'[i].pay = hd[h].t, hd[h].dec.status \in {"matched", "cash_sale"}
      PROVE  Recorded(t)' /\ event'[t].mark # "none"
  <2>1. PICK q : q = hd[h]
    OBVIOUS
  <2>2. event[q.t].mark # "none" /\ payment'[q.t].status = q.dec.status
    BY <1>4, <2>1, ApplyEffect
  <2>3. UNCHANGED event
    BY <1>4 DEF ApplyPayment
  <2> QED
    BY <1>4, <2>1, <2>2, <2>3 DEF Recorded
<1> QED
  BY <1>3, <1>4, InvoiceComes

\* At most one of a set of rows, said with the rows.
LEMMA AtMostOne ==
  ASSUME NEW n \in Nat, NEW S \in SUBSET (1 .. n)
  PROVE  (Cardinality(S) <= 1) <=> (\A i, j \in S : i = j)
<1>0. IsFiniteSet(1 .. n)
  BY FS_Interval
<1>1. IsFiniteSet(S)
  BY <1>0, FS_Subset
<1>2. Cardinality(S) \in Nat
  BY <1>1, FS_CardinalityType
<1>3. ASSUME Cardinality(S) <= 1, NEW i \in S, NEW j \in S PROVE i = j
  <2>1. CASE Cardinality(S) = 0
    BY <1>1, <2>1, FS_EmptySet
  <2>2. CASE Cardinality(S) = 1
    BY <1>1, <2>2, FS_Singleton
  <2> QED
    BY <1>2, <1>3, <2>1, <2>2
<1>4. ASSUME \A i, j \in S : i = j PROVE Cardinality(S) <= 1
  <2>1. CASE S = {}
    BY <2>1, FS_EmptySet
  <2>2. CASE S # {}
    <3>1. PICK x : x \in S
      BY <2>2
    <3>2. S = {x}
      BY <1>4, <3>1
    <3>3. Cardinality(S) = 1
      BY <3>2, FS_Singleton
    <3> QED
      BY <3>3
  <2> QED
    BY <2>1, <2>2
<1> QED
  BY <1>3, <1>4

\* No two invoices are for one payment.
OnceEach ==
    \A i, j \in DOMAIN docs :
        /\ docs[i].kind = "INVOICE" /\ docs[j].kind = "INVOICE"
        /\ docs[i].pay \in Trans /\ docs[j].pay = docs[i].pay
        => i = j

\* That is what InvoicedOnce says.
LEMMA OnceIs ==
  ASSUME TypeOK, OnceEach
  PROVE  InvoicedOnce
<1> SUFFICES ASSUME NEW t \in Trans
             PROVE  Cardinality({i \in DOMAIN docs : docs[i].kind = "INVOICE" /\ docs[i].pay = t}) <= 1
  BY DEF InvoicedOnce
<1> DEFINE S == {i \in DOMAIN docs : docs[i].kind = "INVOICE" /\ docs[i].pay = t}
<1>1. S \in SUBSET (1 .. Len(docs)) /\ Len(docs) \in Nat
  BY Tables
<1>2. \A i, j \in S : i = j
  BY DEF OnceEach
<1> HIDE DEF S
<1>3. Cardinality(S) <= 1
  BY <1>1, <1>2, AtMostOne
<1> QED
  BY <1>3 DEF S

\* A payment that is behind an invoice does not get another.
LEMMA OnceStep ==
  ASSUME TypeOK, HandlersOK, NoManual, InvoicedIsLedgered, OnceEach, [Next]_vars
  PROVE  OnceEach'
<1> SUFFICES ASSUME NEW i \in DOMAIN docs', NEW j \in DOMAIN docs', docs'[i].kind = "INVOICE", docs'[j].kind = "INVOICE",
                    docs'[i].pay \in Trans, docs'[j].pay = docs'[i].pay
             PROVE  i = j
  BY DEF OnceEach
<1> DEFINE Was(k) == k \in DOMAIN docs /\ docs[k].kind = "INVOICE" /\ docs'[k].pay = docs[k].pay
           New(k) == k = Len(docs) + 1 /\ \E h \in Handlers : ApplyPayment(h) /\ docs'[k].pay = hd[h].t
<1>1. docs'[i].pay # NoTrans /\ docs'[j].pay # NoTrans
  BY IngestAssumption
<1>2. (Was(i) \/ New(i)) /\ (Was(j) \/ New(j))
  BY <1>1, InvoiceComes
<1>3. ASSUME NEW k, Was(k), docs'[k].pay = docs'[i].pay PROVE Recorded(docs'[i].pay)
  BY <1>1, <1>3 DEF InvoicedIsLedgered
<1>4. ASSUME NEW k, New(k), docs'[k].pay = docs'[i].pay PROVE ~Recorded(docs'[i].pay)
  BY <1>4 DEF ApplyPayment
<1>5. CASE Was(i) /\ Was(j)
  BY <1>5 DEF OnceEach
<1>6. CASE New(i) /\ New(j)
  BY <1>6
<1> HIDE DEF Was, New
<1> QED
  BY <1>2, <1>3, <1>4, <1>5, <1>6

\* However often and by whomever a transaction is delivered, confirmation, pull,
\* STK callback, overlapping sweeps, retries after a crash, it is behind at most
\* one invoice: CreatePayment's ON CONFLICT is what the argument rests on.
THEOREM InvoicedOnceHolds ==
  ASSUME HandsOff
  PROVE  Spec => []InvoicedOnce
<1> DEFINE Inv == NoManual /\ InvoicedIsLedgered /\ OnceEach
<1>1. ASSUME Init PROVE Inv
  <2>1. docs = <<>> /\ hd = [h \in Handlers |-> Idle]
    BY <1>1 DEF Init
  <2> QED
    BY <2>1, FreshIs DEF NoManual, InvoicedIsLedgered, OnceEach
<1>2. ASSUME Inv, TypeOK /\ HandlersOK, [Next]_vars PROVE Inv'
  BY <1>2, NoManualStep, InvoicedIsLedgeredStep, OnceStep
<1>3. ASSUME Inv, TypeOK /\ HandlersOK PROVE InvoicedOnce
  BY <1>3, OnceIs
<1> HIDE DEF Inv
<1> QED
  BY <1>1, <1>2, <1>3, HandlersHold, PTL DEF Spec

\* A sale keeps its total.
LEMMA TotalsStay ==
  ASSUME TypeOK, HandlersOK, [Next]_vars, NEW s \in DOMAIN sales
  PROVE  s \in DOMAIN sales' /\ sales'[s].total = sales[s].total
<1>1. ASSUME NEW x, NEW t, Pays(x, t) PROVE s \in DOMAIN sales' /\ sales'[s].total = sales[s].total
  BY <1>1 DEF Pays
<1>2. CASE Opens \/ UNCHANGED sales
  BY <1>2 DEF Opens
<1> QED
  BY <1>1, <1>2, Effects DEF Notes, Credits, Acks

\* A row of the requests is what it was but for its status, or asks for the
\* total of a sale.
RequestGoes(r) ==
    \/ r \in DOMAIN request /\ request'[r].sale = request[r].sale /\ request'[r].amount = request[r].amount
    \/ /\ UNCHANGED sales /\ request'[r].sale \in DOMAIN sales
       /\ request'[r].amount = sales[request'[r].sale].total

\* The status of a request changes.
LEMMA RequestMarked ==
  ASSUME TypeOK, NEW r \in DOMAIN request, NEW st \in {"success", "failed"},
         request' = [request EXCEPT ![r].status = st], NEW k \in DOMAIN request'
  PROVE  RequestGoes(k)
<1>1. PICK x : x = [request[r] EXCEPT !.status = st]
  OBVIOUS
<1>2. request[r] \in RequestRows
  BY Tables
<1>3. x \in RequestRows /\ x.sale = request[r].sale /\ x.amount = request[r].amount
  BY <1>1, <1>2 DEF RequestRows
<1>4. request' = [request EXCEPT ![r] = x]
  BY <1>1
<1>5. DOMAIN request' = DOMAIN request /\ \A y \in DOMAIN request : request'[y] = IF y = r THEN x ELSE request[y]
  BY <1>3, <1>4, RowReplaced DEF TypeOK, RowsOK
<1> QED
  BY <1>3, <1>5 DEF RequestGoes

\* No step does anything else to the requests.
LEMMA RequestEffect ==
  ASSUME TypeOK, HandlersOK, [Next]_vars, NEW k \in DOMAIN request'
  PROVE  RequestGoes(k)
<1>1. CASE UNCHANGED request
  BY <1>1 DEF RequestGoes
<1>2. ASSUME NEW h \in Handlers, NEW r \in DOMAIN request, NEW success \in BOOLEAN, StkResult(h, r, success)
      PROVE  RequestGoes(k)
  <2>1. PICK st \in {"success", "failed"} : st = IF success THEN "success" ELSE "failed"
    OBVIOUS
  <2>2. request' = [request EXCEPT ![r].status = st]
    BY <1>2, <2>1 DEF StkResult
  <2> QED
    BY <2>2, RequestMarked
<1>3. ASSUME NEW h \in Handlers, ApplyPayment(h) PROVE RequestGoes(k)
  <2>1. PICK r : r = hd[h].dec.stk
    OBVIOUS
  <2>2. r \in 0 .. Len(request)
    BY <2>1 DEF HandlersOK, HandlerOK
  <2>3. CASE r = NoRequest
    BY <1>1, <1>3, <2>1, <2>3 DEF ApplyPayment
  <2>4. CASE r # NoRequest
    <3>1. r \in DOMAIN request
      BY <2>2, <2>4, Tables DEF NoRequest
    <3>2. request' = [request EXCEPT ![r].status = "success"]
      BY <1>3, <2>1, <2>4 DEF ApplyPayment
    <3> QED
      BY <3>1, <3>2, RequestMarked
  <2> QED
    BY <2>3, <2>4
<1>4. ASSUME NEW s \in DOMAIN sales, NEW t \in Trans, NEW recent \in BOOLEAN, CreateSTKRequest(s, t, recent)
      PROVE  RequestGoes(k)
  <2>1. PICK x : x = [status |-> "pending", sale |-> s, amount |-> sales[s].total,
                      payer |-> sales[s].payer, recent |-> recent, receipt |-> t]
    OBVIOUS
  <2>2. sales[s] \in SaleRows /\ sales[s].payer # NoPayer /\ s \in Nat
    BY <1>4, Tables DEF CreateSTKRequest
  <2>3. x \in RequestRows /\ x.sale = s /\ x.amount = sales[s].total
    BY <2>1, <2>2 DEF RequestRows, SaleRows
  <2>4. request' = Append(request, x) /\ UNCHANGED sales
    BY <1>4, <2>1 DEF CreateSTKRequest
  <2>5. /\ DOMAIN request' = 1 .. Len(request) + 1 /\ DOMAIN request = 1 .. Len(request) /\ Len(request) \in Nat
        /\ \A r \in DOMAIN request : request'[r] = request[r]
        /\ request'[Len(request) + 1] = x
    BY <2>3, <2>4, RowAdded DEF TypeOK, RowsOK
  <2>6. k \in DOMAIN request \/ k = Len(request) + 1
    BY <2>5
  <2> QED
    BY <2>3, <2>4, <2>5, <2>6 DEF RequestGoes
<1>5. ASSUME NEW h \in Handlers,
             \/ StkIngest(h) \/ StkDuplicate(h) \/ MatchPayment(h) \/ NextSaleRef(h) \/ ApplyRefused(h)
             \/ ApplyDuplicate(h) \/ ApplyReversal(h) \/ MarkProcessed(h) \/ NoteError(h) \/ Reconcile(h)
             \/ ConvertRefused(h) \/ ConvertCommit(h) \/ SettleCommit(h)
      PROVE  UNCHANGED request
  BY <1>5 DEF StkIngest, IngestC2B, StkDuplicate, MatchPayment, NextSaleRef, ApplyRefused, ApplyDuplicate,
              ApplyReversal, MarkProcessed, NoteError, Reconcile, ConvertRefused, ConvertCommit, SettleCommit, tables
<1>6. ASSUME NEW h \in Handlers, Merchant(h) \/ TxFails(h) \/ Dies(h) \/ \E x \in Trans : ListUnprocessed(h, x)
      PROVE  UNCHANGED request
  BY <1>6 DEF Merchant, Convert, Link, Settle, TxFails, Dies, ListUnprocessed, tables
<1>7. ASSUME NEW h \in Handlers, Callback(h) PROVE RequestGoes(k)
  BY <1>1, <1>2, <1>7 DEF Callback, Confirmation, PullTransaction, IngestC2B, tables
<1>8. CASE Counter \/ \E i \in DOMAIN docs : Ack(i)
  BY <1>1, <1>4, <1>8 DEF Counter, CreateSale, CreateCashSale, VerifyShortcode, RejectShortcode, ReplayWebhook,
     Ack, tables
<1>9. ASSUME NEW h \in Handlers, Process(h) PROVE RequestGoes(k)
  BY <1>1, <1>3, <1>5, <1>9 DEF Process
<1>10. CASE Next
  BY <1>1, <1>6, <1>7, <1>8, <1>9, <1>10 DEF Next, Sweep
<1>11. CASE UNCHANGED vars
  BY <1>1, <1>11 DEF vars
<1> QED
  BY <1>10, <1>11

\* A request-to-pay keeps asking for the total of its sale.
LEMMA RequestsPricedStep ==
  ASSUME TypeOK, HandlersOK, RequestsPriced, [Next]_vars
  PROVE  RequestsPriced'
<1> SUFFICES ASSUME NEW r \in DOMAIN request' PROVE request'[r].amount = sales'[request'[r].sale].total
  BY DEF RequestsPriced
<1>1. RequestGoes(r)
  BY RequestEffect
<1>2. CASE r \in DOMAIN request /\ request'[r].sale = request[r].sale /\ request'[r].amount = request[r].amount
  <2>1. PICK s \in DOMAIN sales : s = request[r].sale
    BY <1>2 DEF TypeOK, RowsOK
  <2>2. sales'[s].total = sales[s].total
    BY TotalsStay
  <2> QED
    BY <1>2, <2>1, <2>2 DEF RequestsPriced
<1> QED
  BY <1>1, <1>2 DEF RequestGoes

\* Every handler that has decided to close a sale has an amount that covers it.
CoversAll == \A h \in Handlers : Covers(hd[h])

\* It stays so: the event is not stored twice and totals do not change.
LEMMA CoversStep ==
  ASSUME HandsOff, TypeOK, HandlersOK, NoManual, RequestsPriced, CoversAll, [Next]_vars
  PROVE  CoversAll'
<1>0. TypeOK' /\ HandlersOK' /\ NoManual'
  BY TypeStep, NoManualStep
<1> SUFFICES ASSUME NEW g \in Handlers, NEW q, q = hd'[g], q.pc \in {"ref", "matched"}
             PROVE  /\ q.dec.cash => q.total = event'[q.t].in.amount
                    /\ ~q.dec.cash /\ q.dec.status = "matched" => sales'[q.dec.sale].total =< event'[q.t].in.amount
  BY DEF CoversAll, Covers
<1>1. ASSUME q.t \in Trans, event[q.t].mark # "none" PROVE event'[q.t].in = event[q.t].in
  <2>1. EventGoes(q.t)
    BY <1>1, EventEffect
  <2> QED
    BY <1>1, <2>1 DEF EventGoes
<1>2. ASSUME NEW p, p = hd[g], p.pc \in {"ref", "matched"}, p.dec = q.dec, p.t = q.t, p.total = q.total
      PROVE  /\ q.dec.cash => q.total = event'[q.t].in.amount
             /\ ~q.dec.cash /\ q.dec.status = "matched" => sales'[q.dec.sale].total =< event'[q.t].in.amount
  <2>1. HandlerOK(p) /\ p.dec.rule # "manual" /\ Covers(p)
    BY <1>2 DEF HandlersOK, NoManual, CoversAll
  <2>2. p.t \in Trans /\ event[p.t].mark # "none"
    BY <1>2, <2>1 DEF HandlerOK, OnEvent
  <2>3. event'[q.t].in = event[q.t].in
    BY <1>1, <1>2, <2>2
  <2>4. CASE q.dec.cash
    BY <1>2, <2>1, <2>3, <2>4 DEF Covers
  <2>5. CASE ~q.dec.cash /\ q.dec.status = "matched"
    <3>1. q.dec.sale \in 0 .. Len(sales) /\ q.dec.sale # 0
      BY <1>2, <2>1, <2>5 DEF HandlerOK, Decided, NoSale
    <3>2. q.dec.sale \in DOMAIN sales
      BY <3>1, Tables
    <3>3. sales'[q.dec.sale].total = sales[q.dec.sale].total
      BY <3>2, TotalsStay
    <3> QED
      BY <1>2, <2>1, <2>3, <2>5, <3>3 DEF Covers
  <2> QED
    BY <2>4, <2>5
<1>3. CASE MatchPayment(g)
  <2>1. PICK in \in Payload : in = event[hd[g].t].in
    BY <1>3, Decides
  <2>2. /\ q.t = hd[g].t /\ q.total = in.amount /\ q.dec = Match(in.amount, Lookups(in), AutoInvoice)
        /\ UNCHANGED <<event, tables>>
    BY <1>3, <2>1, Decides
  <2>3. event'[q.t].in = in /\ sales' = sales
    BY <2>1, <2>2 DEF tables
  <2>4. PICK d : d = q.dec
    OBVIOUS
  <2>5. ~d.cash /\ d.status = "matched" =>
              \/ d.stk \in DOMAIN request /\ request[d.stk].amount = in.amount /\ d.sale = request[d.stk].sale
              \/ IsOpen(d.sale) /\ sales[d.sale].total =< in.amount
    BY <2>2, <2>4, MatchOK
  <2>6. CASE ~d.cash /\ d.status = "matched"
    <3>1. CASE d.stk \in DOMAIN request /\ request[d.stk].amount = in.amount /\ d.sale = request[d.stk].sale
      <4>1. sales[d.sale].total = in.amount /\ in.amount \in Nat
        BY <3>1 DEF RequestsPriced, Payload
      <4> QED
        BY <2>3, <2>4, <2>6, <4>1
    <3> QED
      BY <2>3, <2>4, <2>5, <2>6, <3>1
  <2>7. CASE q.dec.cash
    BY <2>2, <2>3, <2>7
  <2> QED
    BY <2>2, <2>3, <2>4, <2>6, <2>7
<1>4. ~Merchant(g)
  BY DEF Merchant, Convert, Link, Settle, Operate, HandsOff
<1>5. CASE hd'[g] = hd[g]
  <2>1. PICK p : p = hd[g]
    OBVIOUS
  <2> QED
    BY <1>2, <1>5, <2>1
<1>6. CASE NextSaleRef(g) /\ hd'[g].dec = hd[g].dec /\ hd'[g].t = hd[g].t /\ hd'[g].total = hd[g].total
  <2>1. PICK p : p = hd[g]
    OBVIOUS
  <2>2. p.pc = "ref"
    BY <1>6, <2>1 DEF NextSaleRef
  <2> QED
    BY <1>2, <1>6, <2>1, <2>2
<1>7. Turns(g)
  BY HandlersTurn
<1> QED
  BY <1>3, <1>4, <1>5, <1>6, <1>7 DEF Turns

\* The total of the sale a payment is applied to.
LEMMA AppliedTotal ==
  ASSUME TypeOK, HandlersOK, NEW h \in Handlers, NEW q, q = hd[h], ApplyPayment(h),
         q.dec.status \in {"matched", "cash_sale"}, NEW s, s = SaleOf(q)
  PROVE  IF q.dec.cash THEN sales'[s].total = q.total
         ELSE s = q.dec.sale /\ s \in DOMAIN sales /\ sales'[s].total = sales[s].total
<1>1. /\ q.total \in Nat
      /\ \/ s \in DOMAIN sales /\ ~q.dec.cash /\ sales' = MarkSalePaid(s)
         \/ s = Len(sales) + 1 /\ q.dec.cash /\ sales' = Append(sales, PaidSale(q.total))
  BY Applies
<1>2. \A x \in DOMAIN sales : sales'[x].total = sales[x].total
  BY <1>1, Closes
<1>3. CASE q.dec.cash
  <2>1. s = Len(sales) + 1 /\ sales' = Append(sales, PaidSale(q.total))
    BY <1>1, <1>3
  <2> QED
    BY <1>1, <1>3, <2>1, SaleMade
<1>4. CASE ~q.dec.cash
  BY <1>1, <1>2, <1>4 DEF SaleOf
<1> QED
  BY <1>3, <1>4

\* An invoice for a payment is for a sale the payment covers.
LEMMA PartialStep ==
  ASSUME TypeOK, HandlersOK, NoManual, InvoicedIsLedgered, CoversAll, PartialNeverInvoiced, [Next]_vars
  PROVE  PartialNeverInvoiced'
<1> SUFFICES ASSUME NEW i \in DOMAIN docs', docs'[i].kind = "INVOICE", docs'[i].pay # NoTrans
             PROVE  event'[docs'[i].pay].in.amount >= sales'[docs'[i].sale].total
  BY DEF PartialNeverInvoiced
<1>1. CASE /\ i \in DOMAIN docs /\ docs[i].kind = "INVOICE"
           /\ docs'[i].pay = docs[i].pay /\ docs'[i].sale = docs[i].sale
  <2>1. PICK t : t = docs[i].pay
    OBVIOUS
  <2>2. t \in Trans /\ event[t].mark # "none" /\ event[t].in.amount >= sales[docs[i].sale].total
    <3>1. docs[i] \in DocRows
      BY <1>1, Tables
    <3> QED
      BY <1>1, <2>1, <3>1 DEF DocRows, InvoicedIsLedgered, PartialNeverInvoiced
  <2>3. EventGoes(t)
    BY <2>2, EventEffect
  <2>4. event'[t].in = event[t].in
    BY <2>2, <2>3 DEF EventGoes
  <2>5. docs[i].sale \in DOMAIN sales
    BY <1>1 DEF TypeOK, RowsOK
  <2>6. sales'[docs[i].sale].total = sales[docs[i].sale].total
    BY <2>5, TotalsStay
  <2> QED
    BY <1>1, <2>1, <2>2, <2>4, <2>6
<1>2. ASSUME NEW h \in Handlers, ApplyPayment(h), docs'[i].pay = hd[h].t, docs'[i].sale = SaleOf(hd[h]),
             hd[h].dec.status \in {"matched", "cash_sale"}
      PROVE  event'[docs'[i].pay].in.amount >= sales'[docs'[i].sale].total
  <2>1. PICK q : q = hd[h]
    OBVIOUS
  <2>2. PICK s : s = SaleOf(q)
    OBVIOUS
  <2>3. IF q.dec.cash THEN sales'[s].total = q.total
        ELSE s = q.dec.sale /\ s \in DOMAIN sales /\ sales'[s].total = sales[s].total
    BY <1>2, <2>1, <2>2, AppliedTotal
  <2>4. Covers(q) /\ q.pc = "matched" /\ UNCHANGED event
    BY <1>2, <2>1 DEF CoversAll, ApplyPayment
  <2>5. Decided(q.dec) /\ q.t \in Trans
    BY <1>2, <2>1, <2>4 DEF HandlersOK, HandlerOK
  <2>6. event[q.t].in.amount \in Nat /\ \A x \in DOMAIN sales : sales[x].total \in Nat
    BY <2>5, Tables DEF TypeOK, RowsOK, EventRows, Payload, SaleRows
  <2>7. event[q.t].in.amount >= sales'[s].total
    <3>1. CASE q.dec.cash
      BY <2>3, <2>4, <2>6, <3>1 DEF Covers
    <3>2. CASE ~q.dec.cash
      <4>1. q.dec.status = "matched"
        BY <1>2, <2>1, <2>5, <3>2 DEF Decided
      <4> QED
        BY <2>3, <2>4, <2>6, <3>2, <4>1 DEF Covers
    <3> QED
      BY <3>1, <3>2
  <2> QED
    BY <1>2, <2>1, <2>2, <2>4, <2>7
<1> QED
  BY <1>1, <1>2, InvoiceComes

\* A payment below a sale's total does not fiscalise it: what Match compared
\* when it read is still what is compared when the invoice is made, whatever
\* was committed in between.
THEOREM PartialNeverInvoicedHolds ==
  ASSUME HandsOff
  PROVE  Spec => []PartialNeverInvoiced
<1> DEFINE Inv == /\ NoManual /\ InvoicedIsLedgered /\ RequestsPriced /\ CoversAll
                  /\ PartialNeverInvoiced
<1>1. ASSUME Init PROVE Inv
  <2>1. docs = <<>> /\ request = <<>> /\ hd = [h \in Handlers |-> Idle]
    BY <1>1 DEF Init
  <2> QED
    BY <2>1, FreshIs DEF NoManual, InvoicedIsLedgered, RequestsPriced, CoversAll, Covers, PartialNeverInvoiced
<1>2. ASSUME Inv, TypeOK /\ HandlersOK, [Next]_vars PROVE Inv'
  BY <1>2, NoManualStep, InvoicedIsLedgeredStep, RequestsPricedStep, CoversStep, PartialStep
<1>3. ASSUME Inv, TypeOK /\ HandlersOK PROVE PartialNeverInvoiced
  BY <1>3
<1> HIDE DEF Inv
<1> QED
  BY <1>1, <1>2, <1>3, HandlersHold, PTL DEF Spec

-----------------------------------------------------------------------------
(* One request at a time: what a handler read is still so when it writes.  *)

OneAtATime == \A g, h \in Handlers : g = h

\* What the merchant begins.
LEMMA MerchantReads ==
  ASSUME TypeOK, NEW g \in Handlers, Merchant(g)
  PROVE  LET q == hd'[g] IN
         /\ UNCHANGED tables
         /\ \/ q.pc = "ref" /\ q.dec.cash /\ Convertible(q.t) /\ "convert" \in Ops
            \/ q.pc = "convert" /\ IsOpen(q.dec.sale) /\ Convertible(q.t) /\ "link" \in Ops
            \/ q.pc = "settle" /\ IsOpen(q.dec.sale)
<1>1. ASSUME NEW t, NEW total, NEW status, Convert(g, t, total, status)
      PROVE  hd'[g].pc = "ref" /\ hd'[g].dec.cash /\ Convertible(hd'[g].t) /\ "convert" \in Ops /\ UNCHANGED tables
  <2>1. PICK d : d = [status |-> status, rule |-> "manual", sale |-> 0, stk |-> 0, cash |-> TRUE]
    OBVIOUS
  <2>2. PICK q : q = [Idle EXCEPT !.pc = "ref", !.t = t, !.total = total, !.dec = d]
    OBVIOUS
  <2>3. q.pc = "ref" /\ q.dec = d /\ q.t = t
    BY <2>2 DEF Idle
  <2>4. Becomes(g, q) /\ Convertible(t) /\ "convert" \in Ops /\ UNCHANGED tables
    BY <1>1, <2>1, <2>2 DEF Convert, Operate, Decision, NoSale, NoRequest
  <2>5. hd'[g] = q
    BY <2>4, BecomesIs
  <2> QED
    BY <2>1, <2>3, <2>4, <2>5
<1>2. ASSUME NEW t, NEW s, Link(g, t, s)
      PROVE  hd'[g].pc = "convert" /\ IsOpen(hd'[g].dec.sale) /\ Convertible(hd'[g].t) /\ "link" \in Ops /\ UNCHANGED tables
  <2>1. PICK d : d = [status |-> "matched", rule |-> "manual", sale |-> s, stk |-> 0, cash |-> FALSE]
    OBVIOUS
  <2>2. PICK q : q = [Idle EXCEPT !.pc = "convert", !.t = t, !.dec = d]
    OBVIOUS
  <2>3. q.pc = "convert" /\ q.dec = d /\ q.t = t
    BY <2>2 DEF Idle
  <2>4. Becomes(g, q) /\ Convertible(t) /\ IsOpen(s) /\ "link" \in Ops /\ UNCHANGED tables
    BY <1>2, <2>1, <2>2 DEF Link, Operate, Decision, NoRequest
  <2>5. hd'[g] = q
    BY <2>4, BecomesIs
  <2> QED
    BY <2>1, <2>3, <2>4, <2>5
<1>3. ASSUME NEW s, NEW t, Settle(g, s, t)
      PROVE  hd'[g].pc = "settle" /\ IsOpen(hd'[g].dec.sale) /\ UNCHANGED tables
  <2>1. PICK d : d = [status |-> "matched", rule |-> "manual", sale |-> s, stk |-> 0, cash |-> FALSE]
    OBVIOUS
  <2>2. PICK S : S = {p \in PaymentsOf(s) : payment[p].status = "partial"}
    OBVIOUS
  <2>3. PICK q : q = [Idle EXCEPT !.pc = "settle", !.t = t, !.seen = S, !.dec = d]
    OBVIOUS
  <2>4. q.pc = "settle" /\ q.dec = d
    BY <2>3 DEF Idle
  <2>5. Becomes(g, q) /\ IsOpen(s) /\ UNCHANGED tables
    BY <1>3, <2>1, <2>2, <2>3 DEF Settle, Decision, NoRequest
  <2>6. hd'[g] = q
    BY <2>5, BecomesIs
  <2> QED
    BY <2>1, <2>4, <2>5, <2>6
<1> QED
  BY <1>1, <1>2, <1>3 DEF Merchant

\* The four transactions that write payments.
Commits(h) == ApplyPayment(h) \/ ConvertCommit(h) \/ SettleCommit(h) \/ ApplyReversal(h)

\* Any other step leaves the payments alone, and every sale that is there.
LEMMA OthersWriteNothing ==
  ASSUME TypeOK, HandlersOK, [Next]_vars, \A h \in Handlers : ~Commits(h)
  PROVE  /\ UNCHANGED payment
         /\ \A s : IsOpen(s) => IsOpen(s)'
<1>1. CASE UNCHANGED <<payment, sales>>
  BY <1>1 DEF IsOpen
<1>2. ASSUME NEW h \in Handlers, Looks(h) PROVE UNCHANGED <<payment, sales>>
  BY <1>2, LooksEffect
<1>3. CASE Counter
  <2>1. CASE Opens
    BY <2>1 DEF Opens, IsOpen
  <2>2. ASSUME NEW s, Pays(s, NoTrans), s \notin DOMAIN sales, UNCHANGED payment
        PROVE  UNCHANGED payment /\ \A x : IsOpen(x) => IsOpen(x)'
    BY <2>2 DEF Pays, IsOpen
  <2> QED
    BY <1>1, <1>3, <2>1, <2>2, CounterEffect
<1>4. CASE \E i \in DOMAIN docs : Ack(i)
  BY <1>1, <1>4 DEF Ack
<1>5. CASE UNCHANGED vars
  BY <1>1, <1>5 DEF vars
<1>6. CASE Next
  <2>1. ASSUME NEW h \in Handlers, Process(h) PROVE UNCHANGED <<payment, sales>>
    BY <1>2, <2>1 DEF Process, Looks, Commits
  <2>2. ASSUME NEW h \in Handlers,
               Callback(h) \/ Merchant(h) \/ TxFails(h) \/ Dies(h) \/ \E t \in Trans : ListUnprocessed(h, t)
        PROVE  UNCHANGED <<payment, sales>>
    BY <1>2, <2>2 DEF Looks
  <2> QED
    BY <1>1, <1>3, <1>4, <1>6, <2>1, <2>2 DEF Next, Sweep
<1> QED
  BY <1>5, <1>6

\* A handler that commits is done.
LEMMA CommitEnds ==
  ASSUME TypeOK, NEW h \in Handlers, Commits(h)
  PROVE  hd'[h].pc \in {"idle", "applied"}
<1>1. CASE Becomes(h, Idle)
  BY <1>1, BecomesIs, FreshIs
<1>2. CASE Becomes(h, [hd[h] EXCEPT !.pc = "applied"])
  <2>1. PICK p \in HandlerRecords : p = hd[h]
    BY DEF TypeOK
  <2>2. PICK q : q = [p EXCEPT !.pc = "applied"]
    OBVIOUS
  <2>3. q.pc = "applied" /\ Becomes(h, q)
    BY <1>2, <2>1, <2>2 DEF HandlerRecords
  <2> QED
    BY <2>3, BecomesIs
<1> QED
  BY <1>1, <1>2 DEF Commits, ApplyPayment, ConvertCommit, SettleCommit, ApplyReversal

\* With one handler, nobody writes while it is about to.
LEMMA NobodyElse ==
  ASSUME OneAtATime, TypeOK, HandlersOK, [Next]_vars, NEW g \in Handlers, hd'[g].pc \notin {"idle", "applied"}
  PROVE  /\ UNCHANGED payment
         /\ \A s : IsOpen(s) => IsOpen(s)'
<1>1. \A h \in Handlers : ~Commits(h)
  BY CommitEnds DEF OneAtATime
<1> QED
  BY <1>1, OthersWriteNothing

\* The payment that is being converted may still be.
LEMMA ConvertibleStep ==
  ASSUME OneAtATime, TypeOK, HandlersOK, \A h \in Handlers : StillConvertible(hd[h]), [Next]_vars,
         NEW g \in Handlers
  PROVE  StillConvertible(hd[g])'
<1> SUFFICES ASSUME NEW q, q = hd'[g], Converting(q) PROVE Convertible(q.t)'
  BY DEF StillConvertible, Converting, Convertible
<1>1. UNCHANGED payment
  BY NobodyElse DEF Converting
<1> SUFFICES Convertible(q.t)
  BY <1>1 DEF Convertible
<1>2. Turns(g)
  BY HandlersTurn
<1>3. CASE MatchPayment(g)
  <2>1. PICK in \in Payload : q.dec = Match(in.amount, Lookups(in), AutoInvoice) /\ q.pc \in {"ref", "matched"}
    BY <1>3, Decides
  <2>2. q.dec.rule # "manual"
    BY <2>1, MatchOK
  <2> QED
    BY <2>1, <2>2 DEF Converting
<1>4. CASE Merchant(g)
  BY <1>4, MerchantReads DEF Converting
<1>5. CASE hd'[g] = hd[g]
  BY <1>5 DEF StillConvertible
<1>6. CASE /\ NextSaleRef(g) /\ hd'[g].dec = hd[g].dec /\ hd'[g].t = hd[g].t
           /\ hd'[g].pc = IF hd[g].dec.rule = "manual" THEN "convert" ELSE "matched"
  <2>1. Converting(hd[g])
    BY <1>6 DEF Converting, NextSaleRef
  <2> QED
    BY <1>6, <2>1 DEF StillConvertible
<1> QED
  BY <1>2, <1>3, <1>4, <1>5, <1>6 DEF Turns, Converting

\* Where the merchant neither converts nor links, no handler does.
LEMMA NoConvertingStep ==
  ASSUME Ops \cap {"convert", "link"} = {}, TypeOK, HandlersOK, \A h \in Handlers : ~Converting(hd[h]), [Next]_vars,
         NEW g \in Handlers
  PROVE  ~Converting(hd[g])'
<1> SUFFICES ASSUME NEW q, q = hd'[g], Converting(q) PROVE FALSE
  BY DEF Converting
<1>2. Turns(g)
  BY HandlersTurn
<1>3. CASE MatchPayment(g)
  <2>1. PICK in \in Payload : q.dec = Match(in.amount, Lookups(in), AutoInvoice) /\ q.pc \in {"ref", "matched"}
    BY <1>3, Decides
  <2>2. q.dec.rule # "manual"
    BY <2>1, MatchOK
  <2> QED
    BY <2>1, <2>2 DEF Converting
<1>4. CASE Merchant(g)
  BY <1>4, MerchantReads DEF Converting
<1>5. CASE hd'[g] = hd[g]
  BY <1>5
<1>6. CASE /\ NextSaleRef(g) /\ hd'[g].dec = hd[g].dec
           /\ hd'[g].pc = IF hd[g].dec.rule = "manual" THEN "convert" ELSE "matched"
  <2>1. Converting(hd[g])
    BY <1>6 DEF Converting, NextSaleRef
  <2> QED
    BY <2>1
<1> QED
  BY <1>2, <1>3, <1>4, <1>5, <1>6 DEF Turns, Converting

\* A step that writes payments moves none that is settled to another sale.
LEMMA PaymentStep ==
  ASSUME TypeOK, HandlersOK, \A h \in Handlers : StillConvertible(hd[h]), [Next]_vars,
         NEW t \in Trans, payment[t].status \in {"matched", "cash_sale", "reversed"}
  PROVE  payment'[t].sale = payment[t].sale
<1>1. CASE \A h \in Handlers : ~Commits(h)
  BY <1>1, OthersWriteNothing
<1>2. ASSUME NEW h \in Handlers, ApplyPayment(h) PROVE payment'[t] = payment[t]
  <2>1. PICK q : q = hd[h]
    OBVIOUS
  <2>2. ~Recorded(q.t) /\ \A p \in Trans : p # q.t => payment'[p] = payment[p]
    BY <1>2, <2>1, ApplyEffect
  <2> QED
    BY <2>2 DEF Recorded
<1>3. ASSUME NEW h \in Handlers, ApplyReversal(h) PROVE payment'[t].sale = payment[t].sale
  BY <1>3, Reverses
<1>4. ASSUME NEW h \in Handlers, SettleCommit(h) PROVE payment'[t].sale = payment[t].sale
  <2>1. payment'[t] = IF t \in hd[h].seen THEN [payment[t] EXCEPT !.status = "matched"] ELSE payment[t]
    BY <1>4 DEF SettleCommit
  <2>2. payment[t] \in [status : Statuses, rule : Rules, sale : 0 .. Len(sales)]
    BY DEF TypeOK, RowsOK
  <2>3. PICK pay : pay = [payment[t] EXCEPT !.status = "matched"]
    OBVIOUS
  <2>4. pay.sale = payment[t].sale
    BY <2>2, <2>3
  <2> QED
    BY <2>1, <2>3, <2>4
<1>5. ASSUME NEW h \in Handlers, ConvertCommit(h) PROVE payment'[t] = payment[t]
  <2>1. PICK x : x = hd[h].t
    OBVIOUS
  <2>2. Convertible(x)
    BY <1>5, <2>1 DEF ConvertCommit, StillConvertible, Converting
  <2>3. x # t
    BY <2>2 DEF Convertible
  <2>4. \E pay : payment' = [payment EXCEPT ![x] = pay]
    BY <1>5, <2>1 DEF ConvertCommit
  <2> QED
    BY <2>3, <2>4 DEF TypeOK, RowsOK
<1> QED
  BY <1>1, <1>2, <1>3, <1>4, <1>5 DEF Commits

\* A payment stays with the sale it was matched to: where requests do not
\* overlap, or where the merchant neither converts nor links.  The guard of
\* convertPayment is read before the write, which is why it takes the one or
\* the other.
THEOREM PaymentStaysHolds ==
  ASSUME OneAtATime \/ Ops \cap {"convert", "link"} = {}
  PROVE  Spec => PaymentStays
<1> DEFINE Inv == \A h \in Handlers : StillConvertible(hd[h])
           Non == \A h \in Handlers : ~Converting(hd[h])
           Step == \A t \in Trans : payment[t].status \in {"matched", "cash_sale", "reversed"} =>
                                        payment'[t].sale = payment[t].sale
<1>1. ASSUME Init PROVE Inv /\ Non
  <2>1. hd = [h \in Handlers |-> Idle]
    BY <1>1 DEF Init
  <2> QED
    BY <2>1, FreshIs DEF StillConvertible, Converting
<1>2. Non => Inv
  BY DEF StillConvertible
<1>3. ASSUME OneAtATime, Inv, TypeOK /\ HandlersOK, [Next]_vars PROVE Inv'
  BY <1>3, ConvertibleStep
<1>4. ASSUME Ops \cap {"convert", "link"} = {}, Non, TypeOK /\ HandlersOK, [Next]_vars PROVE Non'
  BY <1>4, NoConvertingStep
<1>5. ASSUME Inv, TypeOK /\ HandlersOK, [Next]_vars PROVE [Step]_vars
  BY <1>5, PaymentStep
<1> HIDE DEF Inv, Non
<1>6. CASE OneAtATime
  <2>1. Inv /\ TypeOK /\ HandlersOK /\ [Next]_vars => Inv'
    BY <1>3, <1>6
  <2> QED
    BY <1>1, <1>5, <2>1, HandlersHold, PTL DEF Spec, PaymentStays
<1>7. CASE Ops \cap {"convert", "link"} = {}
  <2>1. Non /\ TypeOK /\ HandlersOK /\ [Next]_vars => Non'
    BY <1>4, <1>7
  <2> QED
    BY <1>1, <1>2, <1>5, <2>1, HandlersHold, PTL DEF Spec, PaymentStays
<1> QED
  BY <1>6, <1>7
=============================================================================
