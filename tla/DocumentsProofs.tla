-------------------------- MODULE DocumentsProofs --------------------------
(* Theorems about Documents, for every value of its constants.             *)
EXTENDS Documents, Sums, SequenceTheorems

-----------------------------------------------------------------------------
(* The sums of Reports.                                                    *)

\* TotalOver is such a sum.
LEMMA TotalOverIs ==
  ASSUME NEW rows, NEW D, IsFiniteSet(D), NEW g, \A d \in D : g[d] = rows[d].total
  PROVE  TotalOver(rows, D) = Total(g, D)
<1> DEFINE t == [d \in D |-> rows[d].total]
           Q(it) == it = [s \in SUBSET D |-> IF s = {} THEN 0
                          ELSE LET x == CHOOSE x \in s : TRUE IN rows[x].total + it[s \ {x}]]
           i == CHOOSE it : Q(it)
<1>1. TotalOver(rows, D) = i[D]
  BY DEF TotalOver, MapThenSumSet, MapThenFoldSet
<1>2. \A s \in SUBSET D : s # {} => First(s) \in D /\ t[First(s)] = rows[First(s)].total
  BY DEF First
<1>3. ASSUME NEW it PROVE Q(it) <=> SumsUp(t, D, it)
  BY <1>2 DEF SumsUp, First
<1>4. PICK jt : SumsUp(t, D, jt)
  BY SumExists
<1>5. Q(i)
  <2>1. Q(jt)
    BY <1>3, <1>4
  <2> HIDE DEF Q
  <2> QED
    BY <2>1
<1> HIDE DEF i
<1>6. SumsUp(t, D, i)
  BY <1>3, <1>5
<1>7. PICK kt : SumsUp(g, D, kt) /\ Total(g, D) = kt[D]
  BY TotalIs
<1>8. \A x \in D : t[x] = g[x]
  OBVIOUS
<1> HIDE DEF t, Q
<1>9. i[D] = kt[D]
  BY <1>6, <1>7, <1>8, SumsAgree
<1> QED
  BY <1>1, <1>7, <1>9

\* The rows of the export, signed by the kind of the document.
LEMMA ExportIs ==
  ASSUME NEW rows, NEW D, D = ListItaxReportRows(rows), IsFiniteSet(D),
         NEW g, \A d \in D : g[d] = IF rows[d].kind = "CREDIT_NOTE" THEN -1 ELSE 1
  PROVE  ExportItaxCSV(rows) = Total(g, D)
<1> DEFINE t == [d \in D |-> IF rows[d].kind = "CREDIT_NOTE" THEN -1 ELSE 1]
           Q(it) == it = [s \in SUBSET D |-> IF s = {} THEN 0
                          ELSE LET x == CHOOSE x \in s : TRUE
                               IN (IF rows[x].kind = "CREDIT_NOTE" THEN -1 ELSE 1) + it[s \ {x}]]
           i == CHOOSE it : Q(it)
<1>1. ExportItaxCSV(rows) = i[D]
  BY DEF ExportItaxCSV, MapThenSumSet, MapThenFoldSet
<1>2. \A s \in SUBSET D : s # {} => First(s) \in D /\ t[First(s)] = IF rows[First(s)].kind = "CREDIT_NOTE" THEN -1 ELSE 1
  BY DEF First
<1>3. ASSUME NEW it PROVE Q(it) <=> SumsUp(t, D, it)
  <2>1. \A s \in SUBSET D : s # {} =>
           (IF rows[First(s)].kind = "CREDIT_NOTE" THEN -1 ELSE 1) + it[s \ {First(s)}]
           = t[First(s)] + it[s \ {First(s)}]
    BY <1>2
  <2> HIDE DEF t
  <2> QED
    BY <2>1 DEF SumsUp, First
<1>4. PICK jt : SumsUp(t, D, jt)
  BY SumExists
<1>5. Q(i)
  <2>1. Q(jt)
    BY <1>3, <1>4
  <2> HIDE DEF Q
  <2> QED
    BY <2>1
<1> HIDE DEF i
<1>6. SumsUp(t, D, i)
  BY <1>3, <1>5
<1>7. PICK kt : SumsUp(g, D, kt) /\ Total(g, D) = kt[D]
  BY TotalIs
<1>8. \A x \in D : t[x] = g[x]
  OBVIOUS
<1> HIDE DEF t, Q
<1>9. i[D] = kt[D]
  BY <1>6, <1>7, <1>8, SumsAgree
<1> QED
  BY <1>1, <1>7, <1>9

-----------------------------------------------------------------------------
(* The chain of superseding documents.                                     *)

Hop(rows, d) == IF rows[d].by = NoDoc THEN d ELSE rows[d].by

\* f is the walk of n hops from d.
Walks(rows, d, n, f) ==
    f = [k \in 0 .. n |-> IF k = 0 THEN d
                          ELSE IF rows[f[k - 1]].by = NoDoc THEN f[k - 1] ELSE rows[f[k - 1]].by]

\* There is a walk of any length.
LEMMA WalkExists ==
  ASSUME NEW rows, NEW d, NEW n \in Nat
  PROVE  \E f : Walks(rows, d, n, f)
<1> DEFINE P == {m \in Nat : \E f : Walks(rows, d, m, f)}
<1>1. 0 \in P
  <2> DEFINE f == [k \in 0 .. 0 |-> d]
  <2>1. Walks(rows, d, 0, f)
    BY DEF Walks
  <2> QED
    BY <2>1
<1>2. ASSUME NEW m \in Nat, m \in P PROVE m + 1 \in P
  <2>1. PICK g : Walks(rows, d, m, g)
    BY <1>2
  <2> DEFINE f == [k \in 0 .. m + 1 |-> IF k = m + 1 THEN Hop(rows, g[m]) ELSE g[k]]
  <2>2. \A k \in 0 .. m : f[k] = g[k]
    OBVIOUS
  <2>3. \A k \in 0 .. m : g[k] = IF k = 0 THEN d
                                 ELSE IF rows[g[k - 1]].by = NoDoc THEN g[k - 1] ELSE rows[g[k - 1]].by
    BY <2>1 DEF Walks
  <2>4. f[m + 1] = Hop(rows, f[m])
    OBVIOUS
  <2>5. f = [k \in 0 .. m + 1 |-> f[k]]
    OBVIOUS
  <2> HIDE DEF f
  <2>6. \A k \in 0 .. m + 1 : f[k] = IF k = 0 THEN d
                                     ELSE IF rows[f[k - 1]].by = NoDoc THEN f[k - 1] ELSE rows[f[k - 1]].by
    <3> SUFFICES ASSUME NEW k \in 0 .. m + 1
                 PROVE  f[k] = IF k = 0 THEN d
                               ELSE IF rows[f[k - 1]].by = NoDoc THEN f[k - 1] ELSE rows[f[k - 1]].by
      OBVIOUS
    <3>1. CASE k = m + 1
      <4>1. k - 1 = m /\ k # 0
        BY <3>1
      <4> QED
        BY <2>4, <3>1, <4>1 DEF Hop
    <3>2. CASE k \in 0 .. m
      <4>1. k # 0 => k - 1 \in 0 .. m
        BY <3>2
      <4> QED
        BY <2>2, <2>3, <3>2, <4>1
    <3> QED
      BY <3>1, <3>2
  <2>7. Walks(rows, d, m + 1, f)
    BY <2>5, <2>6 DEF Walks
  <2> QED
    BY <2>7
<1> HIDE DEF P
<1>3. P = Nat
  <2>1. P \in SUBSET Nat
    BY DEF P
  <2> QED
    BY <1>1, <1>2, <2>1, AllNumbers
<1> QED
  BY <1>3 DEF P

\* Follow goes where the walk ends.
LEMMA FollowWalks ==
  ASSUME NEW rows, NEW d, NEW n \in Nat
  PROVE  \E f : /\ f[0] = d
                /\ \A k \in 0 .. n - 1 : f[k + 1] = Hop(rows, f[k])
                /\ Follow(rows, d, n) = f[n]
<1> DEFINE f == CHOOSE f : Walks(rows, d, n, f)
<1>1. Walks(rows, d, n, f)
  BY WalkExists
<1>2. Follow(rows, d, n) = f[n]
  BY DEF Follow, Walks
<1> HIDE DEF f
<1>3. \A k \in 0 .. n : f[k] = IF k = 0 THEN d
                               ELSE IF rows[f[k - 1]].by = NoDoc THEN f[k - 1] ELSE rows[f[k - 1]].by
  BY <1>1 DEF Walks
<1>4. f[0] = d
  BY <1>3
<1>5. ASSUME NEW k \in 0 .. n - 1 PROVE f[k + 1] = Hop(rows, f[k])
  <2>1. k + 1 \in 0 .. n /\ (k + 1) - 1 = k /\ k + 1 # 0
    OBVIOUS
  <2> QED
    BY <1>3, <2>1 DEF Hop
<1> QED
  BY <1>2, <1>4, <1>5

\* Every pointer to a superseding row is 0 or leads forward to a row there is.
Forward(rows) ==
    /\ Len(rows) \in Nat /\ DOMAIN rows = 1 .. Len(rows)
    /\ \A d \in DOMAIN rows : rows[d].by \in {NoDoc} \cup ((d + 1) .. Len(rows))

\* A walk of n hops stays in the table, and has come n rows further unless it
\* has arrived.
LEMMA FollowGoes ==
  ASSUME NEW rows, Forward(rows), NEW d \in DOMAIN rows, NEW n \in Nat
  PROVE  LET e == Follow(rows, d, n) IN
         e \in DOMAIN rows /\ (rows[e].by = NoDoc \/ e >= d + n)
<1>1. PICK f : /\ f[0] = d
               /\ \A k \in 0 .. n - 1 : f[k + 1] = Hop(rows, f[k])
               /\ Follow(rows, d, n) = f[n]
  BY FollowWalks
<1> DEFINE Q(k) == f[k] \in DOMAIN rows /\ (rows[f[k]].by = NoDoc \/ f[k] >= d + k)
           P == {k \in Nat : k =< n => Q(k)}
<1>2. PICK m \in Nat : m = Len(rows) /\ DOMAIN rows = 1 .. m
  BY DEF Forward
<1>3. 0 \in P
  BY <1>1, <1>2
<1>4. ASSUME NEW k \in Nat, k \in P PROVE k + 1 \in P
  <2> SUFFICES ASSUME k + 1 =< n PROVE Q(k + 1)
    OBVIOUS
  <2>1. k \in 0 .. n - 1 /\ k =< n
    OBVIOUS
  <2>2. f[k + 1] = Hop(rows, f[k])
    BY <1>1, <2>1
  <2>3. PICK x \in 1 .. m : x = f[k]
    BY <1>2, <1>4, <2>1
  <2>4. rows[x].by = NoDoc \/ x >= d + k
    BY <1>4, <2>1, <2>3
  <2>5. rows[x].by \in {NoDoc} \cup ((x + 1) .. m)
    BY <1>2 DEF Forward
  <2>6. CASE rows[x].by = NoDoc
    BY <1>2, <2>2, <2>3, <2>6 DEF Hop
  <2>7. CASE rows[x].by # NoDoc
    <3>1. PICK y \in (x + 1) .. m : y = rows[x].by
      BY <2>5, <2>7
    <3>2. f[k + 1] = y
      BY <2>2, <2>3, <2>7, <3>1 DEF Hop
    <3>3. y \in 1 .. m /\ y >= d + (k + 1)
      BY <1>2, <2>4, <2>7, <3>1
    <3> QED
      BY <1>2, <3>2, <3>3
  <2> QED
    BY <2>6, <2>7
<1> HIDE DEF Q
<1>5. P = Nat
  <2>1. P \in SUBSET Nat
    OBVIOUS
  <2> HIDE DEF P
  <2> QED
    BY <1>3, <1>4, <2>1, AllNumbers
<1>6. Q(n)
  BY <1>5
<1> QED
  BY <1>1, <1>6 DEF Q

\* The loop of ReissueInvoice comes to the end of the chain: a row of the table
\* that nothing supersedes.
LEMMA ChainEnds ==
  ASSUME NEW rows, Forward(rows), NEW d \in DOMAIN rows
  PROVE  ActiveInvoice(rows, d) \in DOMAIN rows /\ rows[ActiveInvoice(rows, d)].by = NoDoc
<1>1. PICK m \in Nat : m = Len(rows) /\ DOMAIN rows = 1 .. m
  BY DEF Forward
<1>2. PICK e : e = Follow(rows, d, m)
  OBVIOUS
<1>3. e \in 1 .. m /\ (rows[e].by = NoDoc \/ e >= d + m)
  BY <1>1, <1>2, FollowGoes
<1>4. ~(e >= d + m)
  BY <1>1, <1>3
<1> QED
  BY <1>1, <1>2, <1>3, <1>4 DEF ActiveInvoice

\* What GetAckedInvoiceForSale finds.
LEMMA AckedIs ==
  ASSUME NEW rows, Forward(rows), NEW s, NEW d, d = GetAckedInvoiceForSale(rows, s), d # NoDoc
  PROVE  d \in DOMAIN rows /\ rows[d].sale = s /\ rows[d].kind = "INVOICE" /\ rows[d].state = "ACKED"
<1> DEFINE S == {x \in DOMAIN rows : rows[x].sale = s /\ rows[x].kind = "INVOICE" /\ rows[x].state = "ACKED"}
<1>1. S \in SUBSET (1 .. Len(rows)) /\ Len(rows) \in Nat
  BY DEF Forward
<1>2. d = Newest(S)
  BY DEF GetAckedInvoiceForSale
<1> HIDE DEF S
<1>3. d \in S
  BY <1>1, <1>2, MaxOf DEF Newest
<1> QED
  BY <1>3 DEF S

-----------------------------------------------------------------------------
(* Rows and tables.                                                        *)

\* An invoice counts for its sale, a credit note against it.
Sign(kind) == IF kind = "INVOICE" THEN 1 ELSE -1

\* The same document, whatever supersedes it.
Kept(x, y) ==
    /\ x.sale = y.sale /\ x.kind = y.kind /\ x.parent = y.parent
    /\ x.state = y.state /\ x.cites = y.cites /\ x.total = y.total

\* A new row is as it was asked for, and superseded by nothing.
LEMMA RowIs ==
  ASSUME NEW s \in Sales, NEW kind \in {"INVOICE", "CREDIT_NOTE"}, NEW parent \in Nat,
         NEW state \in {"TAX_PENDING", "QUEUED"}
  PROVE  LET row == Row(s, kind, parent, state) IN
         /\ row \in Doc
         /\ row.sale = s /\ row.kind = kind /\ row.parent = parent /\ row.state = state
         /\ row.by = NoDoc /\ row.cites = NoDoc /\ row.total = Sign(kind)
<1>1. PICK t \in {1, -1} : t = Sign(kind)
  BY DEF Sign
<1>2. Row(s, kind, parent, state) =
        [sale |-> s, kind |-> kind, parent |-> parent, state |-> state, by |-> 0, total |-> t, cites |-> 0]
  BY <1>1 DEF Row, NoDoc, Sign
<1> QED
  BY <1>1, <1>2 DEF Doc, NoDoc

\* The state a document begins in.
LEMMA FirstStateIs ==
  ASSUME NEW ready \in BOOLEAN
  PROVE  /\ FirstState(ready) \in {"TAX_PENDING", "QUEUED"}
         /\ FirstState(ready) = "TAX_PENDING" => ~ready
BY DEF FirstState

\* A table with one row more.
LEMMA RowAdded ==
  ASSUME NEW rows \in Seq(Doc), NEW x \in Doc
  PROVE  LET new == Append(rows, x) IN
         /\ new \in Seq(Doc) /\ Len(rows) \in Nat /\ Len(new) = Len(rows) + 1
         /\ DOMAIN rows = 1 .. Len(rows) /\ DOMAIN new = 1 .. Len(rows) + 1
         /\ \A i \in DOMAIN rows : new[i] = rows[i]
         /\ new[Len(rows) + 1] = x
<1> DEFINE new == Append(rows, x)
<1>1. /\ new \in Seq(Doc) /\ Len(new) = Len(rows) + 1
      /\ \A i \in 1 .. Len(rows) : new[i] = rows[i]
      /\ new[Len(rows) + 1] = x
  BY AppendProperties
<1>2. Len(rows) \in Nat /\ DOMAIN rows = 1 .. Len(rows)
  BY LenProperties
<1> HIDE DEF new
<1>3. DOMAIN new = 1 .. Len(new)
  BY <1>1, LenProperties
<1> QED
  BY <1>1, <1>2, <1>3 DEF new

\* A table whose rows are each replaced.
LEMMA RowsReplaced ==
  ASSUME NEW rows \in Seq(Doc), NEW new, DOMAIN new = DOMAIN rows,
         new = [d \in DOMAIN new |-> new[d]], \A d \in DOMAIN rows : new[d] \in Doc
  PROVE  new \in Seq(Doc) /\ Len(new) = Len(rows)
<1>1. Len(rows) \in Nat /\ DOMAIN rows = 1 .. Len(rows)
  BY LenProperties
<1>2. new \in [1 .. Len(rows) -> Doc]
  BY <1>1
<1>3. new \in Seq(Doc)
  BY <1>1, <1>2, IsASeq
<1>4. Len(new) \in Nat /\ DOMAIN new = 1 .. Len(new)
  BY <1>3, LenProperties
<1> QED
  BY <1>1, <1>3, <1>4

\* Superseding touches one column of the rows it is asked to.
LEMMA SupersedeIs ==
  ASSUME NEW rows \in Seq(Doc), NEW D, NEW by, by \in Nat, NEW new, new = SupersedeInvoice(rows, D, by)
  PROVE  /\ new \in Seq(Doc) /\ Len(new) = Len(rows) /\ DOMAIN new = DOMAIN rows
         /\ \A d \in DOMAIN rows : Kept(rows[d], new[d]) /\ new[d].by = IF d \in D THEN by ELSE rows[d].by
<1>0. \A d \in DOMAIN rows : rows[d] \in Doc
  BY LenProperties
<1>1. DOMAIN new = DOMAIN rows /\ new = [d \in DOMAIN new |-> new[d]]
  BY DEF SupersedeInvoice
<1>2. \A d \in DOMAIN rows : new[d] = IF d \in D THEN [rows[d] EXCEPT !.by = by] ELSE rows[d]
  BY DEF SupersedeInvoice
<1>3. ASSUME NEW d \in DOMAIN rows
      PROVE  /\ new[d] \in Doc /\ Kept(rows[d], new[d])
             /\ new[d].by = IF d \in D THEN by ELSE rows[d].by
  <2>1. PICK row \in Doc : row = rows[d]
    BY <1>0
  <2>2. PICK amended : amended = [row EXCEPT !.by = by]
    OBVIOUS
  <2>3. amended \in Doc
    BY <2>2 DEF Doc
  <2>4. Kept(row, amended) /\ amended.by = by
    BY <2>2 DEF Doc, Kept
  <2>5. Kept(row, row)
    BY DEF Kept
  <2>6. new[d] = IF d \in D THEN amended ELSE row
    BY <1>2, <2>1, <2>2
  <2> QED
    BY <2>1, <2>3, <2>4, <2>5, <2>6
<1>4. new \in Seq(Doc) /\ Len(new) = Len(rows)
  BY <1>1, <1>3, RowsReplaced
<1> QED
  BY <1>1, <1>3, <1>4

-----------------------------------------------------------------------------
(* What the operations do to the table of documents.                       *)

\* k rows are added, and the rows of D are superseded.
Grown(k, D, by) ==
    /\ docs' \in Seq(Doc) /\ Len(docs) \in Nat /\ Len(docs') = Len(docs) + k
    /\ DOMAIN docs = 1 .. Len(docs) /\ DOMAIN docs' = 1 .. Len(docs) + k
    /\ \A d \in DOMAIN docs :
          Kept(docs[d], docs'[d]) /\ docs'[d].by = IF d \in D THEN by ELSE docs[d].by

\* Row d is new and its own.
New(d, s, kind, parent, state) ==
    /\ docs'[d].sale = s /\ docs'[d].kind = kind /\ docs'[d].parent = parent
    /\ docs'[d].state = state /\ docs'[d].cites = NoDoc /\ docs'[d].total = Sign(kind)

\* The table, as a function.
LEMMA Table ==
  ASSUME TypeOK
  PROVE  /\ Len(docs) \in Nat /\ DOMAIN docs = 1 .. Len(docs)
         /\ \A d \in DOMAIN docs : docs[d] \in Doc
         /\ Forward(docs)
BY LenProperties DEF TypeOK, Forward

\* The invoice of a sale, and the credit note of a reversal, are added behind
\* the others.
LEMMA Adds ==
  ASSUME TypeOK, NEW s \in Sales, NEW kind \in {"INVOICE", "CREDIT_NOTE"}, NEW parent \in Nat,
         NEW state \in {"TAX_PENDING", "QUEUED"}, docs' = Append(docs, Row(s, kind, parent, state))
  PROVE  /\ Grown(1, {}, NoDoc) /\ New(Len(docs) + 1, s, kind, parent, state)
         /\ docs'[Len(docs) + 1].by = NoDoc
<1>1. PICK row \in Doc : row = Row(s, kind, parent, state)
  BY RowIs
<1>2. /\ row.sale = s /\ row.kind = kind /\ row.parent = parent /\ row.state = state
      /\ row.by = NoDoc /\ row.cites = NoDoc /\ row.total = Sign(kind)
  BY <1>1, RowIs
<1>3. docs \in Seq(Doc)
  BY DEF TypeOK
<1>4. /\ docs' \in Seq(Doc) /\ Len(docs) \in Nat /\ Len(docs') = Len(docs) + 1
      /\ DOMAIN docs = 1 .. Len(docs) /\ DOMAIN docs' = 1 .. Len(docs) + 1
      /\ \A i \in DOMAIN docs : docs'[i] = docs[i]
      /\ docs'[Len(docs) + 1] = row
  BY <1>1, <1>3, RowAdded
<1> QED
  BY <1>2, <1>4 DEF Grown, New, Kept

\* The merchant's credit note supersedes its invoice.
LEMMA Credited ==
  ASSUME TypeOK, NEW s \in Sales, NEW parent \in DOMAIN docs, NEW state \in {"TAX_PENDING", "QUEUED"},
         docs' = SupersedeInvoice(Append(docs, Row(s, "CREDIT_NOTE", parent, state)), {parent}, Len(docs) + 1)
  PROVE  /\ Grown(1, {parent}, Len(docs) + 1)
         /\ New(Len(docs) + 1, s, "CREDIT_NOTE", parent, state)
         /\ docs'[Len(docs) + 1].by = NoDoc
<1>0. PICK n \in Nat : n = Len(docs) /\ DOMAIN docs = 1 .. n
  BY Table
<1>1. PICK row \in Doc : row = Row(s, "CREDIT_NOTE", parent, state)
  BY <1>0, RowIs
<1>2. /\ row.sale = s /\ row.kind = "CREDIT_NOTE" /\ row.parent = parent /\ row.state = state
      /\ row.by = NoDoc /\ row.cites = NoDoc /\ row.total = Sign("CREDIT_NOTE")
  BY <1>0, <1>1, RowIs
<1>3. docs \in Seq(Doc)
  BY DEF TypeOK
<1>4. PICK rows : rows = Append(docs, row)
  OBVIOUS
<1>5. /\ rows \in Seq(Doc) /\ Len(rows) = n + 1 /\ DOMAIN rows = 1 .. n + 1
      /\ \A i \in 1 .. n : rows[i] = docs[i]
      /\ rows[n + 1] = row
  BY <1>0, <1>3, <1>4, RowAdded
<1>6. docs' = SupersedeInvoice(rows, {parent}, n + 1)
  BY <1>0, <1>1, <1>4
<1>7. /\ docs' \in Seq(Doc) /\ Len(docs') = n + 1 /\ DOMAIN docs' = 1 .. n + 1
      /\ \A d \in 1 .. n + 1 : /\ Kept(rows[d], docs'[d])
                               /\ docs'[d].by = IF d \in {parent} THEN n + 1 ELSE rows[d].by
  <2>0. PICK by : by = n + 1 /\ by \in Nat
    OBVIOUS
  <2>1. PICK D : D = {parent} /\ docs' = SupersedeInvoice(rows, D, by)
    BY <1>6, <2>0
  <2>2. /\ docs' \in Seq(Doc) /\ Len(docs') = Len(rows) /\ DOMAIN docs' = DOMAIN rows
        /\ \A d \in DOMAIN rows : Kept(rows[d], docs'[d]) /\ docs'[d].by = IF d \in D THEN by ELSE rows[d].by
    <3>1. rows \in Seq(Doc) /\ by \in Nat
      BY <1>5, <2>0
    <3>2. docs' = SupersedeInvoice(rows, D, by)
      BY <2>1
    <3>3. docs' \in Seq(Doc) /\ Len(docs') = Len(rows) /\ DOMAIN docs' = DOMAIN rows
      BY <3>1, <3>2, SupersedeIs
    <3>4. \A d \in DOMAIN rows : Kept(rows[d], docs'[d]) /\ docs'[d].by = IF d \in D THEN by ELSE rows[d].by
      BY <3>1, <3>2, SupersedeIs
    <3> QED
      BY <3>3, <3>4
  <2> QED
    BY <1>5, <2>0, <2>1, <2>2
<1>8. \A d \in 1 .. n : Kept(docs[d], docs'[d]) /\ docs'[d].by = IF d \in {parent} THEN n + 1 ELSE docs[d].by
  <2>1. \A d \in 1 .. n : d \in 1 .. n + 1
    OBVIOUS
  <2> QED
    BY <1>5, <1>7, <2>1
<1>9. Grown(1, {parent}, n + 1)
  BY <1>0, <1>7, <1>8 DEF Grown
<1>10. Kept(row, docs'[n + 1]) /\ docs'[n + 1].by = NoDoc
  <2>1. n + 1 \in 1 .. n + 1 /\ parent # n + 1
    BY <1>0
  <2> QED
    BY <1>2, <1>5, <1>7, <2>1
<1> QED
  BY <1>0, <1>2, <1>9, <1>10 DEF New, Kept

\* A reissue of an invoice that is not acknowledged replaces it.
LEMMA Replaced ==
  ASSUME TypeOK, NEW s \in Sales, NEW orig \in DOMAIN docs, NEW state \in {"TAX_PENDING", "QUEUED"},
         docs' = SupersedeInvoice(docs \o <<>> \o <<Row(s, "INVOICE", orig, state)>>, {orig}, Len(docs) + 1)
  PROVE  /\ Grown(1, {orig}, Len(docs) + 1)
         /\ New(Len(docs) + 1, s, "INVOICE", orig, state)
         /\ docs'[Len(docs) + 1].by = NoDoc
<1>0. PICK n \in Nat : n = Len(docs) /\ DOMAIN docs = 1 .. n
  BY Table
<1>1. PICK row \in Doc : row = Row(s, "INVOICE", orig, state)
  BY <1>0, RowIs
<1>2. /\ row.sale = s /\ row.kind = "INVOICE" /\ row.parent = orig /\ row.state = state
      /\ row.by = NoDoc /\ row.cites = NoDoc /\ row.total = Sign("INVOICE")
  BY <1>0, <1>1, RowIs
<1>3. docs \in Seq(Doc) /\ docs \o <<>> = docs
  BY ConcatEmptySeq DEF TypeOK
<1>4. PICK rows : rows = Append(docs, row)
  OBVIOUS
<1>11. docs \o <<>> \o <<row>> = rows
  BY <1>3, <1>4, AppendIsConcat
<1>5. /\ rows \in Seq(Doc) /\ Len(rows) = n + 1 /\ DOMAIN rows = 1 .. n + 1
      /\ \A i \in 1 .. n : rows[i] = docs[i]
      /\ rows[n + 1] = row
  BY <1>0, <1>3, <1>4, RowAdded
<1>6. docs' = SupersedeInvoice(rows, {orig}, n + 1)
  BY <1>0, <1>1, <1>11
<1>7. /\ docs' \in Seq(Doc) /\ Len(docs') = n + 1 /\ DOMAIN docs' = 1 .. n + 1
      /\ \A d \in 1 .. n + 1 : /\ Kept(rows[d], docs'[d])
                               /\ docs'[d].by = IF d \in {orig} THEN n + 1 ELSE rows[d].by
  <2>0. PICK by : by = n + 1 /\ by \in Nat
    OBVIOUS
  <2>1. PICK D : D = {orig} /\ docs' = SupersedeInvoice(rows, D, by)
    BY <1>6, <2>0
  <2>2. /\ docs' \in Seq(Doc) /\ Len(docs') = Len(rows) /\ DOMAIN docs' = DOMAIN rows
        /\ \A d \in DOMAIN rows : Kept(rows[d], docs'[d]) /\ docs'[d].by = IF d \in D THEN by ELSE rows[d].by
    <3>1. rows \in Seq(Doc) /\ by \in Nat
      BY <1>5, <2>0
    <3>2. docs' = SupersedeInvoice(rows, D, by)
      BY <2>1
    <3>3. docs' \in Seq(Doc) /\ Len(docs') = Len(rows) /\ DOMAIN docs' = DOMAIN rows
      BY <3>1, <3>2, SupersedeIs
    <3>4. \A d \in DOMAIN rows : Kept(rows[d], docs'[d]) /\ docs'[d].by = IF d \in D THEN by ELSE rows[d].by
      BY <3>1, <3>2, SupersedeIs
    <3> QED
      BY <3>3, <3>4
  <2> QED
    BY <1>5, <2>0, <2>1, <2>2
<1>8. \A d \in 1 .. n : Kept(docs[d], docs'[d]) /\ docs'[d].by = IF d \in {orig} THEN n + 1 ELSE docs[d].by
  <2>1. \A d \in 1 .. n : d \in 1 .. n + 1
    OBVIOUS
  <2> QED
    BY <1>5, <1>7, <2>1
<1>9. Grown(1, {orig}, n + 1)
  BY <1>0, <1>7, <1>8 DEF Grown
<1>10. Kept(row, docs'[n + 1]) /\ docs'[n + 1].by = NoDoc
  <2>1. n + 1 \in 1 .. n + 1 /\ orig # n + 1
    BY <1>0
  <2> QED
    BY <1>2, <1>5, <1>7, <2>1
<1> QED
  BY <1>0, <1>2, <1>9, <1>10 DEF New, Kept

\* A reissue of an acknowledged invoice credits it and makes it out again; the
\* new invoice supersedes the one before and its credit note.
LEMMA CreditedAndReplaced ==
  ASSUME TypeOK, NEW s \in Sales, NEW orig \in DOMAIN docs, NEW state \in {"TAX_PENDING", "QUEUED"},
         docs' = SupersedeInvoice(
                    docs \o <<Row(s, "CREDIT_NOTE", orig, state)>> \o <<Row(s, "INVOICE", Len(docs) + 1, state)>>,
                    {orig, Len(docs) + 1}, Len(docs) + 2)
  PROVE  /\ Grown(2, {orig}, Len(docs) + 2)
         /\ New(Len(docs) + 1, s, "CREDIT_NOTE", orig, state)
         /\ docs'[Len(docs) + 1].by = Len(docs) + 2
         /\ New(Len(docs) + 2, s, "INVOICE", Len(docs) + 1, state)
         /\ docs'[Len(docs) + 2].by = NoDoc
<1>0. PICK n \in Nat : n = Len(docs) /\ DOMAIN docs = 1 .. n
  BY Table
<1>1. PICK note \in Doc : note = Row(s, "CREDIT_NOTE", orig, state)
  BY <1>0, RowIs
<1>2. /\ note.sale = s /\ note.kind = "CREDIT_NOTE" /\ note.parent = orig /\ note.state = state
      /\ note.by = NoDoc /\ note.cites = NoDoc /\ note.total = Sign("CREDIT_NOTE")
  BY <1>0, <1>1, RowIs
<1>3. PICK new \in Doc : new = Row(s, "INVOICE", n + 1, state)
  BY <1>0, RowIs
<1>4. /\ new.sale = s /\ new.kind = "INVOICE" /\ new.parent = n + 1 /\ new.state = state
      /\ new.by = NoDoc /\ new.cites = NoDoc /\ new.total = Sign("INVOICE")
  BY <1>0, <1>3, RowIs
<1>5. docs \in Seq(Doc)
  BY DEF TypeOK
<1>6. PICK mid : mid = Append(docs, note)
  OBVIOUS
<1>7. PICK rows : rows = Append(mid, new)
  OBVIOUS
<1>8. /\ mid \in Seq(Doc) /\ Len(mid) = n + 1 /\ DOMAIN mid = 1 .. n + 1
      /\ \A i \in 1 .. n : mid[i] = docs[i]
      /\ mid[n + 1] = note
  BY <1>0, <1>5, <1>6, RowAdded
<1>9. docs \o <<note>> \o <<new>> = rows
  BY <1>5, <1>6, <1>7, <1>8, AppendIsConcat
<1>10. /\ rows \in Seq(Doc) /\ Len(rows) = n + 2 /\ DOMAIN rows = 1 .. n + 2
       /\ \A i \in 1 .. n : rows[i] = docs[i]
       /\ rows[n + 1] = note /\ rows[n + 2] = new
  <2>1. /\ rows \in Seq(Doc) /\ Len(rows) = (n + 1) + 1 /\ DOMAIN rows = 1 .. (n + 1) + 1
        /\ \A i \in 1 .. n + 1 : rows[i] = mid[i]
        /\ rows[(n + 1) + 1] = new
    BY <1>7, <1>8, RowAdded
  <2>2. (n + 1) + 1 = n + 2 /\ n + 1 \in 1 .. n + 1 /\ \A i \in 1 .. n : i \in 1 .. n + 1
    OBVIOUS
  <2> QED
    BY <1>8, <2>1, <2>2
<1>11. docs' = SupersedeInvoice(rows, {orig, n + 1}, n + 2)
  BY <1>0, <1>1, <1>3, <1>9
<1>12. /\ docs' \in Seq(Doc) /\ Len(docs') = n + 2 /\ DOMAIN docs' = 1 .. n + 2
       /\ \A d \in 1 .. n + 2 : /\ Kept(rows[d], docs'[d])
                                /\ docs'[d].by = IF d \in {orig, n + 1} THEN n + 2 ELSE rows[d].by
  <2>0. PICK by : by = n + 2 /\ by \in Nat
    OBVIOUS
  <2>1. PICK D : D = {orig, n + 1} /\ docs' = SupersedeInvoice(rows, D, by)
    BY <1>11, <2>0
  <2>2. /\ docs' \in Seq(Doc) /\ Len(docs') = Len(rows) /\ DOMAIN docs' = DOMAIN rows
        /\ \A d \in DOMAIN rows : Kept(rows[d], docs'[d]) /\ docs'[d].by = IF d \in D THEN by ELSE rows[d].by
    <3>1. rows \in Seq(Doc) /\ by \in Nat
      BY <1>10, <2>0
    <3>2. docs' = SupersedeInvoice(rows, D, by)
      BY <2>1
    <3>3. docs' \in Seq(Doc) /\ Len(docs') = Len(rows) /\ DOMAIN docs' = DOMAIN rows
      BY <3>1, <3>2, SupersedeIs
    <3>4. \A d \in DOMAIN rows : Kept(rows[d], docs'[d]) /\ docs'[d].by = IF d \in D THEN by ELSE rows[d].by
      BY <3>1, <3>2, SupersedeIs
    <3> QED
      BY <3>3, <3>4
  <2> QED
    BY <1>10, <2>0, <2>1, <2>2
<1>13. \A d \in 1 .. n : Kept(docs[d], docs'[d]) /\ docs'[d].by = IF d \in {orig} THEN n + 2 ELSE docs[d].by
  <2>1. \A d \in 1 .. n : d \in 1 .. n + 2 /\ d # n + 1
    OBVIOUS
  <2> QED
    BY <1>10, <1>12, <2>1
<1>14. Grown(2, {orig}, n + 2)
  BY <1>0, <1>12, <1>13 DEF Grown
<1>15. Kept(note, docs'[n + 1]) /\ docs'[n + 1].by = n + 2
  <2>1. n + 1 \in 1 .. n + 2
    OBVIOUS
  <2> QED
    BY <1>10, <1>12, <2>1
<1>16. Kept(new, docs'[n + 2]) /\ docs'[n + 2].by = NoDoc
  <2>1. n + 2 \in 1 .. n + 2 /\ orig # n + 2 /\ n + 1 # n + 2
    BY <1>0
  <2> QED
    BY <1>4, <1>10, <1>12, <2>1
<1>17. New(n + 1, s, "CREDIT_NOTE", orig, state)
  BY <1>2, <1>15 DEF New, Kept
<1>18. New(n + 2, s, "INVOICE", n + 1, state)
  BY <1>4, <1>16 DEF New, Kept
<1> QED
  BY <1>0, <1>14, <1>15, <1>16, <1>17, <1>18

\* No row is added; what a document is and who supersedes it stays.
Filed ==
    /\ docs' \in Seq(Doc) /\ Len(docs') = Len(docs) /\ DOMAIN docs' = DOMAIN docs
    /\ \A d \in DOMAIN docs : /\ docs'[d].sale = docs[d].sale /\ docs'[d].kind = docs[d].kind
                              /\ docs'[d].parent = docs[d].parent /\ docs'[d].by = docs[d].by
                              /\ docs'[d].total = docs[d].total

States == {"TAX_PENDING", "QUEUED", "SUBMITTED", "ACKED", "NEEDS_REVIEW"}

\* One document changes its state.
LEMMA MovesIs ==
  ASSUME TypeOK, NEW d \in DOMAIN docs, NEW st \in States, Moves(d, st)
  PROVE  /\ Filed
         /\ \A x \in DOMAIN docs : /\ docs'[x].cites = docs[x].cites
                                   /\ docs'[x].state = IF x = d THEN st ELSE docs[x].state
<1>0. docs \in Seq(Doc) /\ \A x \in DOMAIN docs : docs[x] \in Doc
  BY Table DEF TypeOK
<1>1. PICK row : row = [docs[d] EXCEPT !.state = st]
  OBVIOUS
<1>2. /\ row \in Doc /\ row.sale = docs[d].sale /\ row.kind = docs[d].kind /\ row.parent = docs[d].parent
      /\ row.by = docs[d].by /\ row.cites = docs[d].cites /\ row.state = st /\ row.total = docs[d].total
  BY <1>0, <1>1 DEF Doc, States
<1>3. docs' = [docs EXCEPT ![d] = row]
  BY <1>1 DEF Moves
<1>4. DOMAIN docs' = DOMAIN docs /\ \A x \in DOMAIN docs : docs'[x] = IF x = d THEN row ELSE docs[x]
  BY <1>3
<1>5. docs' \in Seq(Doc) /\ Len(docs') = Len(docs)
  <2>1. docs' = [x \in DOMAIN docs' |-> docs'[x]]
    BY <1>3
  <2>2. \A x \in DOMAIN docs : docs'[x] \in Doc
    BY <1>0, <1>2, <1>4
  <2> QED
    BY <1>0, <1>4, <2>1, <2>2, RowsReplaced
<1> QED
  BY <1>2, <1>4, <1>5 DEF Filed

\* A document is handed to KRA with the number of its parent.
LEMMA SubmitIs ==
  ASSUME TypeOK, NEW d \in DOMAIN docs, Submit(d)
  PROVE  /\ Filed
         /\ \A x \in DOMAIN docs : /\ docs'[x].cites = IF x = d THEN ParentKRANo(d) ELSE docs[x].cites
                                   /\ docs'[x].state = IF x = d THEN "SUBMITTED" ELSE docs[x].state
         /\ ParentKRANo(d) \in {NoDoc, docs[d].parent}
<1>0. docs \in Seq(Doc) /\ \A x \in DOMAIN docs : docs[x] \in Doc
  BY Table DEF TypeOK
<1>1. ParentKRANo(d) \in {NoDoc, docs[d].parent}
  BY DEF ParentKRANo
<1>2. PICK c \in Nat : c = ParentKRANo(d)
  BY <1>0, <1>1 DEF Doc, NoDoc
<1>3. PICK row : row = [docs[d] EXCEPT !.state = "SUBMITTED", !.cites = c]
  OBVIOUS
<1>4. /\ row \in Doc /\ row.sale = docs[d].sale /\ row.kind = docs[d].kind /\ row.parent = docs[d].parent
      /\ row.by = docs[d].by /\ row.cites = c /\ row.state = "SUBMITTED" /\ row.total = docs[d].total
  BY <1>0, <1>3 DEF Doc
<1>5. docs' = [docs EXCEPT ![d] = row]
  <2>1. docs' = [docs EXCEPT ![d].state = "SUBMITTED", ![d].cites = c]
    BY <1>2 DEF Submit
  <2> QED
    BY <2>1, <1>3
<1>6. DOMAIN docs' = DOMAIN docs /\ \A x \in DOMAIN docs : docs'[x] = IF x = d THEN row ELSE docs[x]
  BY <1>5
<1>7. docs' \in Seq(Doc) /\ Len(docs') = Len(docs)
  <2>1. docs' = [x \in DOMAIN docs' |-> docs'[x]]
    BY <1>5
  <2>2. \A x \in DOMAIN docs : docs'[x] \in Doc
    BY <1>0, <1>4, <1>6
  <2> QED
    BY <1>0, <1>6, <2>1, <2>2, RowsReplaced
<1> QED
  BY <1>1, <1>2, <1>4, <1>6, <1>7 DEF Filed

\* The documents held back are let go, and no other.
LEMMA ActivateIs ==
  ASSUME TypeOK, NEW r \in Requests, ActivateTaxPending(r)
  PROVE  /\ Filed
         /\ \A x \in DOMAIN docs : /\ docs'[x].cites = docs[x].cites
                                   /\ docs'[x].state = IF docs[x].state = "TAX_PENDING" THEN "QUEUED" ELSE docs[x].state
<1>0. docs \in Seq(Doc) /\ \A x \in DOMAIN docs : docs[x] \in Doc
  BY Table DEF TypeOK
<1>1. /\ DOMAIN docs' = DOMAIN docs /\ docs' = [x \in DOMAIN docs' |-> docs'[x]]
      /\ \A x \in DOMAIN docs :
            docs'[x] = IF docs[x].state = "TAX_PENDING" THEN [docs[x] EXCEPT !.state = "QUEUED"] ELSE docs[x]
  BY DEF ActivateTaxPending, ActivateTaxPendingInvoices
<1>2. ASSUME NEW x \in DOMAIN docs
      PROVE  /\ docs'[x] \in Doc /\ docs'[x].sale = docs[x].sale /\ docs'[x].kind = docs[x].kind
             /\ docs'[x].parent = docs[x].parent /\ docs'[x].by = docs[x].by
             /\ docs'[x].cites = docs[x].cites /\ docs'[x].total = docs[x].total
             /\ docs'[x].state = IF docs[x].state = "TAX_PENDING" THEN "QUEUED" ELSE docs[x].state
  <2>1. docs[x] \in Doc
    BY <1>0
  <2>2. CASE docs[x].state = "TAX_PENDING"
    <3>1. docs'[x] = [docs[x] EXCEPT !.state = "QUEUED"]
      BY <1>1, <2>2
    <3> QED
      BY <2>1, <2>2, <3>1 DEF Doc
  <2>3. CASE docs[x].state # "TAX_PENDING"
    BY <1>1, <2>1, <2>3
  <2> QED
    BY <2>2, <2>3
<1>3. docs' \in Seq(Doc) /\ Len(docs') = Len(docs)
  BY <1>0, <1>1, <1>2, RowsReplaced
<1> QED
  BY <1>1, <1>2, <1>3 DEF Filed

-----------------------------------------------------------------------------
(* What each of these keeps.                                               *)

\* A document of its own, behind the others.
Added(s, kind, parent, st) ==
    /\ Grown(1, {}, NoDoc)
    /\ New(Len(docs) + 1, s, kind, parent, st) /\ docs'[Len(docs) + 1].by = NoDoc

\* A credit note that supersedes its invoice.
CreditedBy(orig, st) ==
    /\ Grown(1, {orig}, Len(docs) + 1)
    /\ New(Len(docs) + 1, docs[orig].sale, "CREDIT_NOTE", orig, st) /\ docs'[Len(docs) + 1].by = NoDoc

\* An invoice in the place of another, with or without a credit note between.
Reissued(orig, st, noted) ==
    \/ /\ ~noted
       /\ Grown(1, {orig}, Len(docs) + 1)
       /\ New(Len(docs) + 1, docs[orig].sale, "INVOICE", orig, st) /\ docs'[Len(docs) + 1].by = NoDoc
    \/ /\ noted
       /\ Grown(2, {orig}, Len(docs) + 2)
       /\ New(Len(docs) + 1, docs[orig].sale, "CREDIT_NOTE", orig, st)
       /\ docs'[Len(docs) + 1].by = Len(docs) + 2
       /\ New(Len(docs) + 2, docs[orig].sale, "INVOICE", Len(docs) + 1, st)
       /\ docs'[Len(docs) + 2].by = NoDoc

\* The part of the type invariant that is about the rows.
RowsFine ==
    /\ docs \in Seq(Doc)
    /\ \A d \in DOMAIN docs : /\ docs[d].by \in {NoDoc} \cup ((d + 1) .. Len(docs))
                              /\ docs[d].parent < d
                              /\ docs[d].cites \in {NoDoc, docs[d].parent}

\* Rows stay where they are, what KRA acknowledged it does not take back, and a
\* payment that is there stays.
Onwards ==
    /\ Len(docs) \in Nat /\ Len(docs)' \in Nat /\ Len(docs) =< Len(docs)'
    /\ DOMAIN docs = 1 .. Len(docs) /\ DOMAIN docs' = 1 .. Len(docs)'
    /\ \A d \in DOMAIN docs : /\ docs'[d].sale = docs[d].sale /\ docs'[d].kind = docs[d].kind
                              /\ docs[d].state = "ACKED" => docs'[d].state = "ACKED"
    /\ \A s \in Sales : pay[s] # "none" => pay'[s] # "none"

\* Rows that are added point back to their parents, and the pointers that
\* change lead forward to them.
LEMMA GrownFine ==
  ASSUME TypeOK, NEW k \in Nat, NEW D, NEW by, Grown(k, D, by),
         D # {} => by \in Len(docs) + 1 .. Len(docs) + k,
         \A d \in Len(docs) + 1 .. Len(docs) + k :
            /\ docs'[d].by \in {NoDoc} \cup ((d + 1) .. Len(docs) + k)
            /\ docs'[d].parent < d /\ docs'[d].cites = NoDoc
  PROVE  RowsFine'
<1>1. PICK n \in Nat : n = Len(docs) /\ DOMAIN docs = 1 .. n /\ DOMAIN docs' = 1 .. n + k /\ Len(docs)' = n + k
  BY DEF Grown
<1>2. ASSUME NEW d \in 1 .. n + k
      PROVE  /\ docs'[d].by \in {NoDoc} \cup ((d + 1) .. n + k)
             /\ docs'[d].parent < d
             /\ docs'[d].cites \in {NoDoc, docs'[d].parent}
  <2>1. CASE d \in 1 .. n
    <3>1. /\ docs'[d].parent = docs[d].parent /\ docs'[d].cites = docs[d].cites
          /\ docs'[d].by = IF d \in D THEN by ELSE docs[d].by
      BY <1>1, <2>1 DEF Grown, Kept
    <3>2. /\ docs[d].by \in {NoDoc} \cup ((d + 1) .. n) /\ docs[d].parent < d
          /\ docs[d].cites \in {NoDoc, docs[d].parent}
      BY <1>1, <2>1 DEF TypeOK
    <3>3. d \in D => by \in (d + 1) .. n + k
      BY <1>1, <2>1
    <3>4. \A x \in (d + 1) .. n : x \in (d + 1) .. n + k
      OBVIOUS
    <3> QED
      BY <3>1, <3>2, <3>3, <3>4
  <2>2. CASE d \in n + 1 .. n + k
    BY <1>1, <2>2
  <2> QED
    BY <2>1, <2>2
<1>3. docs' \in Seq(Doc)
  BY DEF Grown
<1> QED
  BY <1>1, <1>2, <1>3 DEF RowsFine

\* A document of its own keeps the rows in order.
LEMMA AddedFine ==
  ASSUME TypeOK, NEW s, NEW kind, NEW parent \in 0 .. Len(docs), NEW st, Added(s, kind, parent, st)
  PROVE  RowsFine'
<1>1. PICK n \in Nat : n = Len(docs)
  BY Table
<1>2. ASSUME NEW d \in n + 1 .. n + 1
      PROVE  docs'[d].by = NoDoc /\ docs'[d].parent < d /\ docs'[d].cites = NoDoc
  <2>1. d = n + 1
    OBVIOUS
  <2> QED
    BY <1>1, <2>1 DEF Added, New
<1> QED
  BY <1>1, <1>2, GrownFine DEF Added

\* So does a credit note.
LEMMA CreditedFine ==
  ASSUME TypeOK, NEW orig \in DOMAIN docs, NEW st, CreditedBy(orig, st)
  PROVE  RowsFine'
<1>1. PICK n \in Nat : n = Len(docs) /\ DOMAIN docs = 1 .. n
  BY Table
<1>2. ASSUME NEW d \in n + 1 .. n + 1
      PROVE  docs'[d].by = NoDoc /\ docs'[d].parent < d /\ docs'[d].cites = NoDoc
  <2>1. d = n + 1
    OBVIOUS
  <2> QED
    BY <1>1, <2>1 DEF CreditedBy, New
<1>3. n + 1 \in n + 1 .. n + 1
  OBVIOUS
<1> QED
  BY <1>1, <1>2, <1>3, GrownFine DEF CreditedBy

\* And so does a reissue.
LEMMA ReissuedFine ==
  ASSUME TypeOK, NEW orig \in DOMAIN docs, NEW st, NEW noted, Reissued(orig, st, noted)
  PROVE  RowsFine'
<1>1. PICK n \in Nat : n = Len(docs) /\ DOMAIN docs = 1 .. n
  BY Table
<1>2. CASE ~noted
  <2>1. ASSUME NEW d \in n + 1 .. n + 1
        PROVE  docs'[d].by = NoDoc /\ docs'[d].parent < d /\ docs'[d].cites = NoDoc
    <3>1. d = n + 1
      OBVIOUS
    <3> QED
      BY <1>1, <1>2, <3>1 DEF Reissued, New
  <2>2. n + 1 \in n + 1 .. n + 1
    OBVIOUS
  <2> QED
    BY <1>1, <1>2, <2>1, <2>2, GrownFine DEF Reissued
<1>3. CASE noted
  <2>1. ASSUME NEW d \in n + 1 .. n + 2
        PROVE  docs'[d].by \in {NoDoc} \cup ((d + 1) .. n + 2) /\ docs'[d].parent < d /\ docs'[d].cites = NoDoc
    <3>1. d = n + 1 \/ d = n + 2
      OBVIOUS
    <3>2. CASE d = n + 1
      BY <1>1, <1>3, <3>2 DEF Reissued, New
    <3>3. CASE d = n + 2
      BY <1>1, <1>3, <3>3 DEF Reissued, New
    <3> QED
      BY <3>1, <3>2, <3>3
  <2>2. n + 2 \in n + 1 .. n + 2
    OBVIOUS
  <2> QED
    BY <1>1, <1>3, <2>1, <2>2, GrownFine DEF Reissued
<1> QED
  BY <1>2, <1>3

\* Filing keeps the rows in order.
LEMMA FiledFine ==
  ASSUME TypeOK, Filed,
         \A x \in DOMAIN docs : docs'[x].cites = docs[x].cites \/ docs'[x].cites \in {NoDoc, docs[x].parent}
  PROVE  RowsFine'
<1>1. ASSUME NEW d \in DOMAIN docs'
      PROVE  /\ docs'[d].by \in {NoDoc} \cup ((d + 1) .. Len(docs'))
             /\ docs'[d].parent < d
             /\ docs'[d].cites \in {NoDoc, docs'[d].parent}
  <2>1. d \in DOMAIN docs /\ Len(docs') = Len(docs)
    BY DEF Filed
  <2>2. docs'[d].by = docs[d].by /\ docs'[d].parent = docs[d].parent
    BY <2>1 DEF Filed
  <2>3. /\ docs[d].by \in {NoDoc} \cup ((d + 1) .. Len(docs)) /\ docs[d].parent < d
        /\ docs[d].cites \in {NoDoc, docs[d].parent}
    BY <2>1 DEF TypeOK
  <2> QED
    BY <2>1, <2>2, <2>3
<1> QED
  BY <1>1 DEF RowsFine, Filed

\* Each of them leads onwards.
LEMMA LeadsOn ==
  ASSUME TypeOK, \A s \in Sales : pay[s] # "none" => pay'[s] # "none",
         \/ UNCHANGED docs
         \/ Filed /\ \A x \in DOMAIN docs : docs[x].state = "ACKED" => docs'[x].state = "ACKED"
         \/ \E k \in Nat : \E D, by : Grown(k, D, by)
  PROVE  Onwards
<1>1. Len(docs) \in Nat /\ DOMAIN docs = 1 .. Len(docs)
  BY Table
<1>2. CASE UNCHANGED docs
  BY <1>1, <1>2 DEF Onwards
<1>3. CASE Filed /\ \A x \in DOMAIN docs : docs[x].state = "ACKED" => docs'[x].state = "ACKED"
  BY <1>1, <1>3 DEF Onwards, Filed
<1>4. ASSUME NEW k \in Nat, NEW D, NEW by, Grown(k, D, by) PROVE Onwards
  BY <1>1, <1>4 DEF Onwards, Grown, Kept
<1> QED
  BY <1>2, <1>3, <1>4

-----------------------------------------------------------------------------
(* What the requests may rely on.                                          *)

\* A request that does not act keeps what it relies on.
LEMMA RequestKept ==
  ASSUME TypeOK, Onwards, NEW q \in Request, RequestOK(q), q.arg \in Ids, q.read.doc \in Ids,
         q.pc = "invoice" => pay'[q.sale] = "none"
  PROVE  RequestOK(q)' /\ q.arg \in Ids' /\ q.read.doc \in Ids'
<1> DEFINE d == q.read.doc
<1>1. PICK n \in Nat, m \in Nat : n = Len(docs) /\ m = Len(docs)' /\ n =< m /\ DOMAIN docs = 1 .. n
  BY DEF Onwards
<1>2. q.arg \in Ids' /\ d \in Ids'
  BY <1>1 DEF Ids
<1>3. d # NoDoc => d \in DOMAIN docs
  BY <1>1 DEF Ids, NoDoc
<1>4. d # NoDoc => /\ docs'[d].sale = docs[d].sale /\ docs'[d].kind = docs[d].kind
                   /\ docs[d].state = "ACKED" => docs'[d].state = "ACKED"
  BY <1>3 DEF Onwards
<1>5. q.pc = "reversal" => pay'[q.sale] # "none"
  BY DEF RequestOK, Onwards
<1> QED
  BY <1>2, <1>4, <1>5 DEF RequestOK, IsAcked

\* One request acts; no other was to make the first invoice of a sale that is
\* paid now, or that this one is for.
LEMMA RequestActs ==
  ASSUME TypeOK, RequestsOK, Unpaid, Onwards, NEW r \in Requests, NEW q \in Request, Becomes(r, q),
         RequestOK(q)', q.arg \in Ids', q.read.doc \in Ids',
         \A o \in Requests : o # r /\ req[o].pc = "invoice" =>
            pay'[req[o].sale] = "none" /\ q.sale # req[o].sale,
         q.pc = "invoice" => \A o \in Requests : o # r => req[o].sale # q.sale
  PROVE  /\ req' \in [Requests -> Request]
         /\ \A o \in Requests : req'[o].arg \in Ids' /\ req'[o].read.doc \in Ids'
         /\ RequestsOK'
         /\ \A o, p \in Requests : req'[o].pc = "invoice" /\ req'[p].sale = req'[o].sale => p = o
<1>1. /\ req' \in [Requests -> Request] /\ req'[r] = q
      /\ \A o \in Requests : o # r => req'[o] = req[o]
  BY DEF Becomes, TypeOK
<1>2. ASSUME NEW o \in Requests
      PROVE  RequestOK(req[o])' /\ req'[o].arg \in Ids' /\ req'[o].read.doc \in Ids'
  <2>1. CASE o = r
    <3>1. req'[o] = q
      BY <1>1, <2>1
    <3>2. RequestOK(req[o])'
      BY <3>1 DEF RequestOK
    <3> QED
      BY <3>1, <3>2
  <2>2. CASE o # r
    <3>1. PICK p \in Request : p = req[o] /\ p = req'[o]
      BY <1>1, <2>2 DEF TypeOK
    <3>2. RequestOK(p) /\ p.arg \in Ids /\ p.read.doc \in Ids
      BY <3>1 DEF TypeOK, RequestsOK
    <3>3. RequestOK(p)' /\ p.arg \in Ids' /\ p.read.doc \in Ids'
      BY <2>2, <3>1, <3>2, RequestKept
    <3>4. RequestOK(req[o])'
      BY <3>1, <3>3 DEF RequestOK
    <3> QED
      BY <3>1, <3>3, <3>4
  <2> QED
    BY <2>1, <2>2
<1>3. ASSUME NEW o \in Requests, NEW p \in Requests, req'[o].pc = "invoice", req'[p].sale = req'[o].sale
      PROVE  p = o
  <2>1. CASE o # r /\ p # r
    BY <1>1, <1>3, <2>1 DEF Unpaid
  <2>2. CASE o = r /\ p # r
    BY <1>1, <1>3, <2>2
  <2>3. CASE o # r /\ p = r
    BY <1>1, <1>3, <2>3
  <2> QED
    BY <2>1, <2>2, <2>3
<1> QED
  BY <1>1, <1>2, <1>3 DEF RequestsOK

\* A request that is over relies on nothing.
LEMMA IdleOK ==
  /\ Idle \in Request /\ Idle.arg = NoDoc /\ Idle.read.doc = NoDoc /\ Idle.sale = NoSale /\ Idle.pc = "idle"
  /\ RequestOK(Idle)'
<1>1. /\ Idle.arg = NoDoc /\ Idle.read = NoRead /\ NoRead.doc = NoDoc /\ Idle.sale = NoSale /\ Idle.pc = "idle"
      /\ Idle \in Request
  BY DEF Idle, NoRead, Request, NoDoc
<1>2. RequestOK(Idle)'
  BY <1>1, DocumentsAssumption DEF RequestOK
<1> QED
  BY <1>1, <1>2

\* A request commits or gives up, and no other was to make the first invoice of
\* a sale that is paid now.
LEMMA RequestEnds ==
  ASSUME TypeOK, RequestsOK, Unpaid, Onwards, NEW r \in Requests, Becomes(r, Idle),
         \A o \in Requests : o # r /\ req[o].pc = "invoice" => pay'[req[o].sale] = "none"
  PROVE  /\ req' \in [Requests -> Request]
         /\ \A o \in Requests : req'[o].arg \in Ids' /\ req'[o].read.doc \in Ids'
         /\ RequestsOK'
         /\ \A o, p \in Requests : req'[o].pc = "invoice" /\ req'[p].sale = req'[o].sale => p = o
<1>1. /\ Idle \in Request /\ Idle.arg = NoDoc /\ Idle.read.doc = NoDoc /\ Idle.sale = NoSale /\ Idle.pc = "idle"
      /\ RequestOK(Idle)'
  BY IdleOK
<1>2. NoDoc \in Ids'
  BY DEF Ids, Onwards, NoDoc
<1>3. \A o \in Requests : req[o].pc = "invoice" => Idle.sale # req[o].sale
  BY <1>1, DocumentsAssumption DEF RequestsOK, RequestOK
<1> QED
  BY <1>1, <1>2, <1>3, RequestActs

\* Nothing of the requests changes.
LEMMA RequestsRest ==
  ASSUME TypeOK, RequestsOK, Unpaid, Onwards, UNCHANGED <<req, pay>>
  PROVE  /\ req' \in [Requests -> Request]
         /\ \A o \in Requests : req'[o].arg \in Ids' /\ req'[o].read.doc \in Ids'
         /\ RequestsOK'
         /\ \A o, p \in Requests : req'[o].pc = "invoice" /\ req'[p].sale = req'[o].sale => p = o
<1>1. ASSUME NEW o \in Requests
      PROVE  RequestOK(req[o])' /\ req'[o].arg \in Ids' /\ req'[o].read.doc \in Ids'
  <2>1. PICK p \in Request : p = req[o] /\ p = req'[o]
    BY DEF TypeOK
  <2>2. RequestOK(p) /\ p.arg \in Ids /\ p.read.doc \in Ids
    BY <2>1 DEF TypeOK, RequestsOK
  <2>3. p.pc = "invoice" => pay'[p.sale] = "none"
    BY <2>2 DEF RequestOK
  <2>4. RequestOK(p)' /\ p.arg \in Ids' /\ p.read.doc \in Ids'
    BY <2>2, <2>3, RequestKept
  <2>5. RequestOK(req[o])'
    BY <2>1, <2>4 DEF RequestOK
  <2> QED
    BY <2>1, <2>4, <2>5
<1> QED
  BY <1>1 DEF RequestsOK, Unpaid, TypeOK

-----------------------------------------------------------------------------
(* What the commits write.                                                 *)

\* The invariant the other results rest on.
Base == TypeOK /\ RequestsOK /\ Unpaid

\* What a request has is of its type.
LEMMA RequestIs ==
  ASSUME TypeOK, RequestsOK, NEW r \in Requests
  PROVE  /\ req[r] \in Request /\ RequestOK(req[r])
         /\ req[r].read.acked \in BOOLEAN /\ req[r].read.ready \in BOOLEAN
         /\ req[r].read.doc \in Nat /\ req[r].read.doc \in 0 .. Len(docs)
         /\ req[r].read.doc # NoDoc => req[r].read.doc \in DOMAIN docs
         /\ req[r].arg \in Nat /\ req[r].arg \in 0 .. Len(docs)
         /\ req[r].arg # NoDoc => req[r].arg \in DOMAIN docs
<1>1. req[r] \in Request /\ RequestOK(req[r]) /\ req[r].arg \in 0 .. Len(docs) /\ req[r].read.doc \in 0 .. Len(docs)
  BY DEF TypeOK, RequestsOK, Ids
<1>2. PICK n \in Nat : n = Len(docs) /\ DOMAIN docs = 1 .. n
  BY Table
<1>3. \A x \in 0 .. n : x # NoDoc => x \in 1 .. n
  BY DEF NoDoc
<1>4. req[r].read \in [doc : Nat, acked : BOOLEAN, ready : BOOLEAN] /\ req[r].arg \in Nat
  BY <1>1 DEF Request
<1> QED
  BY <1>1, <1>2, <1>3, <1>4

\* What CommitInvoice writes.
LEMMA InvoiceEffect ==
  ASSUME TypeOK, RequestsOK, NEW r \in Requests, CommitInvoice(r)
  PROVE  /\ req[r].sale \in Sales /\ pay[req[r].sale] = "none"
         /\ Added(req[r].sale, "INVOICE", NoDoc, FirstState(req[r].read.ready))
<1>1. req[r].sale \in Sales /\ pay[req[r].sale] = "none"
  BY RequestIs DEF CommitInvoice, RequestOK
<1>2. PICK st \in {"TAX_PENDING", "QUEUED"} : st = FirstState(req[r].read.ready)
  BY RequestIs, FirstStateIs
<1>3. docs' = Append(docs, Row(req[r].sale, "INVOICE", NoDoc, st))
  BY <1>2 DEF CommitInvoice
<1>4. NoDoc \in Nat
  BY DEF NoDoc
<1> QED
  BY <1>1, <1>2, <1>3, <1>4, Adds DEF Added

\* What CreateCreditNoteForInvoice writes.
LEMMA CreditEffect ==
  ASSUME TypeOK, RequestsOK, NEW r \in Requests, CreateCreditNoteForInvoice(r), NEW orig, orig = req[r].read.doc
  PROVE  /\ orig \in DOMAIN docs /\ docs[orig].kind = "INVOICE" /\ docs[orig].sale \in Sales /\ orig = req[r].arg
         /\ req[r].read.acked => docs[orig].state = "ACKED"
         /\ CreditedBy(orig, FirstState(req[r].read.ready))
<1>1. /\ orig \in DOMAIN docs /\ docs[orig].kind = "INVOICE" /\ orig = req[r].arg
      /\ req[r].read.acked => docs[orig].state = "ACKED"
  BY RequestIs DEF CreateCreditNoteForInvoice, RequestOK
<1>2. docs[orig].sale \in Sales
  BY <1>1, Table DEF Doc
<1>3. PICK st \in {"TAX_PENDING", "QUEUED"} : st = FirstState(req[r].read.ready)
  BY RequestIs, FirstStateIs
<1>4. docs' = SupersedeInvoice(Append(docs, Row(docs[orig].sale, "CREDIT_NOTE", orig, st)), {orig}, Len(docs) + 1)
  BY <1>3 DEF CreateCreditNoteForInvoice
<1>5. CreditedBy(orig, st)
  BY <1>1, <1>2, <1>4, Credited DEF CreditedBy
<1> QED
  BY <1>1, <1>2, <1>3, <1>5

\* What ReissueInvoice writes.
LEMMA ReissueEffect ==
  ASSUME TypeOK, RequestsOK, NEW r \in Requests, ReissueInvoice(r), NEW orig, orig = req[r].read.doc
  PROVE  /\ orig \in DOMAIN docs /\ docs[orig].kind = "INVOICE" /\ docs[orig].sale \in Sales
         /\ req[r].read.acked => docs[orig].state = "ACKED"
         /\ Reissued(orig, FirstState(req[r].read.ready), req[r].read.acked)
<1>1. /\ orig \in DOMAIN docs /\ docs[orig].kind = "INVOICE"
      /\ req[r].read.acked => docs[orig].state = "ACKED"
  BY RequestIs DEF ReissueInvoice, RequestOK
<1>2. PICK s \in Sales : s = docs[orig].sale
  BY <1>1, Table DEF Doc
<1>3. PICK st \in {"TAX_PENDING", "QUEUED"} : st = FirstState(req[r].read.ready)
  BY RequestIs, FirstStateIs
<1>4. PICK n \in Nat : n = Len(docs) /\ DOMAIN docs = 1 .. n
  BY Table
<1>5. CASE ~req[r].read.acked
  <2>1. docs' = SupersedeInvoice(docs \o <<>> \o <<Row(s, "INVOICE", orig, st)>>,
                                 SupersededByReissue(orig, NoDoc), n + Len(<<>>) + 1)
    BY <1>2, <1>3, <1>4, <1>5 DEF ReissueInvoice
  <2>2. SupersededByReissue(orig, NoDoc) = {orig}
    BY DEF SupersededByReissue
  <2>3. n + Len(<<>>) + 1 = n + 1
    OBVIOUS
  <2>4. docs' = SupersedeInvoice(docs \o <<>> \o <<Row(s, "INVOICE", orig, st)>>, {orig}, Len(docs) + 1)
    BY <1>4, <2>1, <2>2, <2>3
  <2> QED
    BY <1>1, <1>2, <1>3, <1>5, <2>4, Replaced DEF Reissued
<1>6. CASE req[r].read.acked
  <2>1. docs' = SupersedeInvoice(docs \o <<Row(s, "CREDIT_NOTE", orig, st)>> \o <<Row(s, "INVOICE", n + 1, st)>>,
                                 SupersededByReissue(orig, n + 1), n + Len(<<Row(s, "CREDIT_NOTE", orig, st)>>) + 1)
    BY <1>2, <1>3, <1>4, <1>6 DEF ReissueInvoice
  <2>2. SupersededByReissue(orig, n + 1) = {orig, n + 1}
    BY DEF SupersededByReissue, NoDoc
  <2>3. n + Len(<<Row(s, "CREDIT_NOTE", orig, st)>>) + 1 = n + 2
    OBVIOUS
  <2>4. docs' = SupersedeInvoice(
                  docs \o <<Row(s, "CREDIT_NOTE", orig, st)>> \o <<Row(s, "INVOICE", Len(docs) + 1, st)>>,
                  {orig, Len(docs) + 1}, Len(docs) + 2)
    BY <1>4, <2>1, <2>2, <2>3
  <2>5. /\ Grown(2, {orig}, Len(docs) + 2)
        /\ New(Len(docs) + 1, s, "CREDIT_NOTE", orig, st)
        /\ docs'[Len(docs) + 1].by = Len(docs) + 2
        /\ New(Len(docs) + 2, s, "INVOICE", Len(docs) + 1, st)
        /\ docs'[Len(docs) + 2].by = NoDoc
    BY <1>1, <2>4, CreditedAndReplaced
  <2>6. Reissued(orig, st, req[r].read.acked)
    BY <1>2, <1>6, <2>5 DEF Reissued
  <2> QED
    BY <1>1, <1>2, <1>3, <2>6
<1> QED
  BY <1>1, <1>2, <1>5, <1>6

\* What applyReversal writes.
LEMMA ReversalEffect ==
  ASSUME TypeOK, RequestsOK, NEW r \in Requests, applyReversal(r), NEW d, d = req[r].read.doc
  PROVE  /\ req[r].sale \in Sales /\ pay[req[r].sale] # "none"
         /\ \/ d = NoDoc /\ UNCHANGED <<docs, queue>>
            \/ /\ d \in DOMAIN docs /\ IsAcked(d) /\ docs[d].sale = req[r].sale
               /\ Added(req[r].sale, "CREDIT_NOTE", d, "QUEUED")
<1>1. /\ req[r].sale \in Sales /\ pay[req[r].sale] # "none"
      /\ d # NoDoc => d \in DOMAIN docs /\ d \in Nat /\ IsAcked(d) /\ docs[d].sale = req[r].sale
  BY RequestIs DEF applyReversal, RequestOK
<1>2. CASE d = NoDoc
  BY <1>1, <1>2 DEF applyReversal
<1>3. CASE d # NoDoc
  <2>1. docs' = Append(docs, Row(req[r].sale, "CREDIT_NOTE", d, "QUEUED"))
    BY <1>3 DEF applyReversal
  <2>2. Added(req[r].sale, "CREDIT_NOTE", d, "QUEUED")
    BY <1>1, <1>3, <2>1, Adds DEF Added
  <2> QED
    BY <1>1, <1>3, <2>2
<1> QED
  BY <1>2, <1>3

-----------------------------------------------------------------------------
(* Every step keeps the invariant.                                         *)

\* The payment of one sale changes; none disappears.
LEMMA PayChanges ==
  ASSUME TypeOK, NEW s \in Sales, NEW v \in {"matched", "reversed"}, pay' = [pay EXCEPT ![s] = v]
  PROVE  /\ pay' \in [Sales -> {"none", "matched", "reversed"}]
         /\ \A x \in Sales : pay'[x] = IF x = s THEN v ELSE pay[x]
         /\ \A x \in Sales : pay[x] # "none" => pay'[x] # "none"
BY DEF TypeOK

\* What is put together of the parts of a step.
LEMMA BaseStep ==
  ASSUME Base, RowsFine', Onwards,
         req' \in [Requests -> Request],
         \A o \in Requests : req'[o].arg \in Ids' /\ req'[o].read.doc \in Ids',
         RequestsOK',
         \A o, p \in Requests : req'[o].pc = "invoice" /\ req'[p].sale = req'[o].sale => p = o,
         pay' \in [Sales -> {"none", "matched", "reversed"}],
         etims' \in {"unconfigured", "initialized", "failed"},
         queue' \subseteq DOMAIN docs', mishap' \subseteq Mishaps, ops' \in 0 .. MaxOps,
         \A d \in DOMAIN docs' : d \in DOMAIN docs \/ pay'[docs'[d].sale] # "none"
  PROVE  Base'
<1>1. TypeOK'
  BY DEF TypeOK, RowsFine
<1>2. ASSUME NEW d \in DOMAIN docs' PROVE pay'[docs'[d].sale] # "none"
  <2>1. CASE d \in DOMAIN docs
    <3>1. docs[d].sale \in Sales /\ pay[docs[d].sale] # "none" /\ docs'[d].sale = docs[d].sale
      BY <2>1, Table DEF Base, Unpaid, Doc, Onwards
    <3> QED
      BY <3>1 DEF Onwards
  <2> QED
    BY <2>1
<1>3. Unpaid'
  BY <1>2 DEF Unpaid
<1> QED
  BY <1>1, <1>3 DEF Base

\* A commit notes a mishap or none.
LEMMA NotedIs ==
  ASSUME TypeOK, NEW r \in Requests, NEW kinds \in SUBSET Mishaps, Noted(r, kinds)
  PROVE  mishap' \subseteq Mishaps /\ mishap \subseteq mishap' /\ kinds \subseteq mishap'
BY DEF TypeOK, Noted, Mishaps

\* A document is queued when it is new.
LEMMA QueuedIs ==
  ASSUME TypeOK, NEW ready, NEW D, D \subseteq DOMAIN docs', DOMAIN docs \subseteq DOMAIN docs',
         queue' = Enqueued(ready, D)
  PROVE  queue' \subseteq DOMAIN docs'
BY DEF TypeOK, Enqueued

\* The invoice of a sale keeps the invariant: the sale was not paid, and no
\* other request was to invoice it.
LEMMA InvoiceStep ==
  ASSUME Base, NEW r \in Requests, CommitInvoice(r)
  PROVE  Base'
<1>0. TypeOK /\ RequestsOK /\ Unpaid
  BY DEF Base
<1>1. PICK s \in Sales : s = req[r].sale
  BY <1>0, InvoiceEffect
<1>2. PICK st : st = FirstState(req[r].read.ready)
  OBVIOUS
<1>3. Added(s, "INVOICE", NoDoc, st)
  BY <1>0, <1>1, <1>2, InvoiceEffect
<1>4. PICK n \in Nat : n = Len(docs) /\ DOMAIN docs = 1 .. n /\ DOMAIN docs' = 1 .. n + 1 /\ docs'[n + 1].sale = s
  BY <1>3 DEF Added, Grown, New
<1>5. RowsFine'
  <2>1. NoDoc \in 0 .. Len(docs)
    BY <1>4 DEF NoDoc
  <2> QED
    BY <1>0, <1>3, <2>1, AddedFine
<1>6. pay' = [pay EXCEPT ![s] = "matched"]
  BY <1>1 DEF CommitInvoice
<1>7. /\ pay' \in [Sales -> {"none", "matched", "reversed"}]
      /\ \A x \in Sales : pay'[x] = IF x = s THEN "matched" ELSE pay[x]
      /\ \A x \in Sales : pay[x] # "none" => pay'[x] # "none"
  BY <1>0, <1>6, PayChanges
<1>8. Onwards
  <2>1. Grown(1, {}, NoDoc)
    BY <1>3 DEF Added
  <2> QED
    BY <1>0, <1>7, <2>1, LeadsOn
<1>9. ASSUME NEW o \in Requests, o # r, req[o].pc = "invoice" PROVE pay'[req[o].sale] = "none"
  <2>1. req[o].sale \in Sales /\ pay[req[o].sale] = "none"
    BY <1>0, <1>9 DEF RequestsOK, RequestOK
  <2>2. req[o].sale # s
    BY <1>0, <1>1, <1>9 DEF Unpaid
  <2> QED
    BY <1>7, <2>1, <2>2
<1>10. /\ req' \in [Requests -> Request]
       /\ \A o \in Requests : req'[o].arg \in Ids' /\ req'[o].read.doc \in Ids'
       /\ RequestsOK'
       /\ \A o, p \in Requests : req'[o].pc = "invoice" /\ req'[p].sale = req'[o].sale => p = o
  BY <1>0, <1>8, <1>9, RequestEnds DEF CommitInvoice
<1>11. mishap' \subseteq Mishaps
  BY <1>0, NotedIs DEF CommitInvoice
<1>12. queue' \subseteq DOMAIN docs'
  <2>1. PICK D : D = {n + 1}
    OBVIOUS
  <2>2. D \subseteq DOMAIN docs' /\ DOMAIN docs \subseteq DOMAIN docs'
    BY <1>4, <2>1
  <2>3. queue' = Enqueued(req[r].read.ready, D)
    BY <1>4, <2>1 DEF CommitInvoice
  <2> QED
    BY <1>0, <2>2, <2>3, QueuedIs
<1>13. \A d \in DOMAIN docs' : d \in DOMAIN docs \/ pay'[docs'[d].sale] # "none"
  <2>1. \A d \in 1 .. n + 1 : d \in 1 .. n \/ d = n + 1
    OBVIOUS
  <2> QED
    BY <1>4, <1>7, <2>1
<1>14. etims' \in {"unconfigured", "initialized", "failed"} /\ ops' \in 0 .. MaxOps
  BY <1>0 DEF TypeOK, CommitInvoice
<1> QED
  BY <1>5, <1>7, <1>8, <1>10, <1>11, <1>12, <1>13, <1>14, BaseStep

\* The sale of a document is paid, so no request is to invoice it.
LEMMA OtherSales ==
  ASSUME Base, NEW s \in Sales, pay[s] # "none", NEW v \in {"matched", "reversed"},
         pay' = [pay EXCEPT ![s] = v] \/ UNCHANGED pay,
         NEW o \in Requests, req[o].pc = "invoice"
  PROVE  pay'[req[o].sale] = "none"
<1>1. req[o].sale \in Sales /\ pay[req[o].sale] = "none"
  BY DEF Base, RequestsOK, RequestOK
<1> QED
  BY <1>1 DEF Base, TypeOK

\* A credit note keeps it.
LEMMA CreditStep ==
  ASSUME Base, NEW r \in Requests, CreateCreditNoteForInvoice(r)
  PROVE  Base'
<1>0. TypeOK /\ RequestsOK /\ Unpaid
  BY DEF Base
<1>1. PICK orig : orig = req[r].read.doc
  OBVIOUS
<1>2. PICK st : st = FirstState(req[r].read.ready)
  OBVIOUS
<1>3. orig \in DOMAIN docs /\ CreditedBy(orig, st)
  BY <1>0, <1>1, <1>2, CreditEffect
<1>15. PICK s \in Sales : s = docs[orig].sale /\ pay[s] # "none"
  BY <1>0, <1>1, <1>3, CreditEffect DEF Unpaid
<1>4. PICK n \in Nat : n = Len(docs) /\ DOMAIN docs = 1 .. n /\ DOMAIN docs' = 1 .. n + 1 /\ docs'[n + 1].sale = s
  BY <1>3, <1>15 DEF CreditedBy, Grown, New
<1>5. RowsFine'
  BY <1>0, <1>3, CreditedFine
<1>6. pay' = [pay EXCEPT ![s] = "reversed"]
  BY <1>1, <1>15 DEF CreateCreditNoteForInvoice
<1>7. /\ pay' \in [Sales -> {"none", "matched", "reversed"}]
      /\ \A x \in Sales : pay'[x] = IF x = s THEN "reversed" ELSE pay[x]
      /\ \A x \in Sales : pay[x] # "none" => pay'[x] # "none"
  BY <1>0, <1>6, PayChanges
<1>8. Onwards
  <2>1. PICK D, by : Grown(1, D, by)
    BY <1>3 DEF CreditedBy
  <2> QED
    BY <1>0, <1>7, <2>1, LeadsOn
<1>9. \A o \in Requests : o # r /\ req[o].pc = "invoice" => pay'[req[o].sale] = "none"
  BY <1>6, <1>15, OtherSales
<1>10. /\ req' \in [Requests -> Request]
       /\ \A o \in Requests : req'[o].arg \in Ids' /\ req'[o].read.doc \in Ids'
       /\ RequestsOK'
       /\ \A o, p \in Requests : req'[o].pc = "invoice" /\ req'[p].sale = req'[o].sale => p = o
  BY <1>0, <1>8, <1>9, RequestEnds DEF CreateCreditNoteForInvoice
<1>11. mishap' \subseteq Mishaps
  <2>1. PICK kinds \in SUBSET Mishaps : kinds = Early(req[r].read.acked)
    BY DEF Early, Mishaps
  <2> QED
    BY <1>0, <2>1, NotedIs DEF CreateCreditNoteForInvoice
<1>12. queue' \subseteq DOMAIN docs'
  <2>1. PICK D : D = {n + 1}
    OBVIOUS
  <2>2. D \subseteq DOMAIN docs' /\ DOMAIN docs \subseteq DOMAIN docs'
    BY <1>4, <2>1
  <2>3. queue' = Enqueued(req[r].read.ready, D)
    BY <1>4, <2>1 DEF CreateCreditNoteForInvoice
  <2> QED
    BY <1>0, <2>2, <2>3, QueuedIs
<1>13. \A d \in DOMAIN docs' : d \in DOMAIN docs \/ pay'[docs'[d].sale] # "none"
  <2>1. \A d \in 1 .. n + 1 : d \in 1 .. n \/ d = n + 1
    OBVIOUS
  <2> QED
    BY <1>4, <1>7, <2>1
<1>14. etims' \in {"unconfigured", "initialized", "failed"} /\ ops' \in 0 .. MaxOps
  BY <1>0 DEF TypeOK, CreateCreditNoteForInvoice
<1> QED
  BY <1>5, <1>7, <1>8, <1>10, <1>11, <1>12, <1>13, <1>14, BaseStep

\* A reissue keeps it.
LEMMA ReissueStep ==
  ASSUME Base, NEW r \in Requests, ReissueInvoice(r)
  PROVE  Base'
<1>0. TypeOK /\ RequestsOK /\ Unpaid
  BY DEF Base
<1>1. PICK orig : orig = req[r].read.doc
  OBVIOUS
<1>2. PICK st : st = FirstState(req[r].read.ready)
  OBVIOUS
<1>3. PICK noted \in BOOLEAN : noted = req[r].read.acked
  BY <1>0, RequestIs
<1>4. orig \in DOMAIN docs /\ Reissued(orig, st, noted)
  BY <1>0, <1>1, <1>2, <1>3, ReissueEffect
<1>5. PICK s \in Sales : s = docs[orig].sale /\ pay[s] # "none"
  BY <1>0, <1>1, <1>4, ReissueEffect DEF Unpaid
<1>6. PICK n \in Nat : n = Len(docs)
  BY <1>0, Table
<1>7. PICK k \in {1, 2} : /\ k = IF noted THEN 2 ELSE 1
                          /\ DOMAIN docs = 1 .. n /\ DOMAIN docs' = 1 .. n + k
                          /\ \A d \in n + 1 .. n + k : docs'[d].sale = s
                          /\ \E by : Grown(k, {orig}, by)
  <2>1. CASE noted
    <3>1. \A d \in n + 1 .. n + 2 : d = n + 1 \/ d = n + 2
      OBVIOUS
    <3>2. docs'[n + 1].sale = s /\ docs'[n + 2].sale = s
      BY <1>4, <1>5, <1>6, <2>1 DEF Reissued, New
    <3>3. Grown(2, {orig}, n + 2)
      BY <1>4, <1>6, <2>1 DEF Reissued
    <3>4. DOMAIN docs = 1 .. n /\ DOMAIN docs' = 1 .. n + 2
      BY <1>6, <3>3 DEF Grown
    <3> QED
      BY <2>1, <3>1, <3>2, <3>3, <3>4
  <2>2. CASE ~noted
    <3>1. \A d \in n + 1 .. n + 1 : d = n + 1
      OBVIOUS
    <3>2. docs'[n + 1].sale = s
      BY <1>4, <1>5, <1>6, <2>2 DEF Reissued, New
    <3>3. Grown(1, {orig}, n + 1)
      BY <1>4, <1>6, <2>2 DEF Reissued
    <3>4. DOMAIN docs = 1 .. n /\ DOMAIN docs' = 1 .. n + 1
      BY <1>6, <3>3 DEF Grown
    <3> QED
      BY <2>2, <3>1, <3>2, <3>3, <3>4
  <2> QED
    BY <2>1, <2>2
<1>8. RowsFine'
  BY <1>0, <1>4, ReissuedFine
<1>9. pay' = pay /\ pay \in [Sales -> {"none", "matched", "reversed"}]
  BY <1>0 DEF ReissueInvoice, TypeOK
<1>10. Onwards
  <2>1. PICK D, by : Grown(k, D, by)
    BY <1>7
  <2>2. k \in Nat
    OBVIOUS
  <2> QED
    BY <1>0, <1>9, <2>1, <2>2, LeadsOn
<1>11. \A o \in Requests : o # r /\ req[o].pc = "invoice" => pay'[req[o].sale] = "none"
  BY <1>5, <1>9, OtherSales
<1>12. /\ req' \in [Requests -> Request]
       /\ \A o \in Requests : req'[o].arg \in Ids' /\ req'[o].read.doc \in Ids'
       /\ RequestsOK'
       /\ \A o, p \in Requests : req'[o].pc = "invoice" /\ req'[p].sale = req'[o].sale => p = o
  BY <1>0, <1>10, <1>11, RequestEnds DEF ReissueInvoice
<1>13. mishap' \subseteq Mishaps
  <2>1. PICK kinds \in SUBSET Mishaps : kinds = Early(req[r].read.acked) \cup Again(docs[req[r].read.doc].sale)
    BY DEF Early, Again, Mishaps
  <2>2. Noted(r, kinds)
    BY <2>1 DEF ReissueInvoice
  <2> QED
    BY <1>0, <2>2, NotedIs
<1>14. queue' \subseteq DOMAIN docs'
  <2>1. PICK D : D = n + 1 .. n + k
    OBVIOUS
  <2>2. D \subseteq DOMAIN docs' /\ DOMAIN docs \subseteq DOMAIN docs'
    BY <1>7, <2>1
  <2>3. queue' = Enqueued(req[r].read.ready, D)
    <3>1. CASE noted
      <4>1. PICK note : note = Row(s, "CREDIT_NOTE", orig, st)
        OBVIOUS
      <4>2. queue' = Enqueued(req[r].read.ready, n + 1 .. (n + Len(<<note>>) + 1))
        BY <1>1, <1>2, <1>3, <1>5, <1>6, <3>1, <4>1 DEF ReissueInvoice
      <4>3. n + Len(<<note>>) + 1 = n + k
        BY <1>7, <3>1
      <4> QED
        BY <2>1, <4>2, <4>3
    <3>2. CASE ~noted
      <4>2. queue' = Enqueued(req[r].read.ready, n + 1 .. (n + Len(<<>>) + 1))
        BY <1>3, <1>6, <3>2 DEF ReissueInvoice
      <4>3. n + Len(<<>>) + 1 = n + k
        BY <1>7, <3>2
      <4> QED
        BY <2>1, <4>2, <4>3
    <3> QED
      BY <3>1, <3>2
  <2> QED
    BY <1>0, <2>2, <2>3, QueuedIs
<1>15. \A d \in DOMAIN docs' : d \in DOMAIN docs \/ pay'[docs'[d].sale] # "none"
  <2>1. \A d \in 1 .. n + k : d \in 1 .. n \/ d \in n + 1 .. n + k
    OBVIOUS
  <2> QED
    BY <1>5, <1>7, <1>9, <2>1
<1>16. etims' \in {"unconfigured", "initialized", "failed"} /\ ops' \in 0 .. MaxOps
  BY <1>0 DEF TypeOK, ReissueInvoice
<1> QED
  BY <1>8, <1>9, <1>10, <1>12, <1>13, <1>14, <1>15, <1>16, BaseStep

\* A reversal keeps it.
LEMMA ReversalStep ==
  ASSUME Base, NEW r \in Requests, applyReversal(r)
  PROVE  Base'
<1>0. TypeOK /\ RequestsOK /\ Unpaid
  BY DEF Base
<1>1. PICK d : d = req[r].read.doc
  OBVIOUS
<1>2. PICK s \in Sales : s = req[r].sale /\ pay[s] # "none"
  BY <1>0, <1>1, ReversalEffect
<1>3. \/ d = NoDoc /\ UNCHANGED <<docs, queue>>
      \/ d \in DOMAIN docs /\ Added(s, "CREDIT_NOTE", d, "QUEUED")
  BY <1>0, <1>1, <1>2, ReversalEffect
<1>4. pay' = [pay EXCEPT ![s] = "reversed"]
  BY <1>2 DEF applyReversal
<1>5. /\ pay' \in [Sales -> {"none", "matched", "reversed"}]
      /\ \A x \in Sales : pay'[x] = IF x = s THEN "reversed" ELSE pay[x]
      /\ \A x \in Sales : pay[x] # "none" => pay'[x] # "none"
  BY <1>0, <1>4, PayChanges
<1>6. \A o \in Requests : o # r /\ req[o].pc = "invoice" => pay'[req[o].sale] = "none"
  BY <1>2, <1>4, OtherSales
<1>7. mishap' \subseteq Mishaps
  <2>1. PICK kinds \in SUBSET Mishaps :
           kinds = Early(req[r].read.doc = NewestInvoiceForSale(docs, req[r].sale)) \cup Again(req[r].sale)
    BY DEF Early, Again, Mishaps
  <2>2. Noted(r, kinds)
    BY <2>1 DEF applyReversal
  <2> QED
    BY <1>0, <2>2, NotedIs
<1>8. etims' \in {"unconfigured", "initialized", "failed"} /\ ops' \in 0 .. MaxOps /\ Becomes(r, Idle)
  BY <1>0 DEF TypeOK, applyReversal
<1>9. /\ RowsFine' /\ Onwards /\ queue' \subseteq DOMAIN docs'
      /\ \A x \in DOMAIN docs' : x \in DOMAIN docs \/ pay'[docs'[x].sale] # "none"
  <2>1. CASE UNCHANGED <<docs, queue>>
    <3>1. Onwards
      BY <1>0, <1>5, <2>1, LeadsOn
    <3> QED
      BY <1>0, <2>1, <3>1 DEF TypeOK, RowsFine
  <2>2. CASE d \in DOMAIN docs /\ Added(s, "CREDIT_NOTE", d, "QUEUED")
    <3>1. PICK n \in Nat : n = Len(docs) /\ DOMAIN docs = 1 .. n /\ DOMAIN docs' = 1 .. n + 1 /\ docs'[n + 1].sale = s
      BY <2>2 DEF Added, Grown, New
    <3>2. d \in 0 .. Len(docs)
      BY <2>2, <3>1
    <3>3. RowsFine'
      BY <1>0, <2>2, <3>2, AddedFine
    <3>4. Grown(1, {}, NoDoc)
      BY <2>2 DEF Added
    <3>5. Onwards
      BY <1>0, <1>5, <3>4, LeadsOn
    <3>6. \A x \in 1 .. n + 1 : x \in 1 .. n \/ x = n + 1
      OBVIOUS
    <3>7. queue' \subseteq queue \cup {n + 1}
      BY <3>1 DEF applyReversal
    <3>8. queue' \subseteq DOMAIN docs'
      BY <1>0, <3>1, <3>7 DEF TypeOK
    <3> QED
      BY <1>5, <3>1, <3>3, <3>5, <3>6, <3>8
  <2> QED
    BY <1>3, <2>1, <2>2
<1>10. /\ req' \in [Requests -> Request]
       /\ \A o \in Requests : req'[o].arg \in Ids' /\ req'[o].read.doc \in Ids'
       /\ RequestsOK'
       /\ \A o, p \in Requests : req'[o].pc = "invoice" /\ req'[p].sale = req'[o].sale => p = o
  BY <1>0, <1>6, <1>8, <1>9, RequestEnds
<1> QED
  BY <1>5, <1>7, <1>8, <1>9, <1>10, BaseStep

\* Filing keeps it: no request acts.
LEMMA FilingStep ==
  ASSUME Base, Filed, UNCHANGED <<pay, etims, req>>, queue' \subseteq DOMAIN docs, mishap' \subseteq Mishaps,
         ops' \in 0 .. MaxOps,
         \A x \in DOMAIN docs : docs'[x].cites = docs[x].cites \/ docs'[x].cites \in {NoDoc, docs[x].parent},
         \A x \in DOMAIN docs : docs[x].state = "ACKED" => docs'[x].state = "ACKED"
  PROVE  Base'
<1>0. TypeOK /\ RequestsOK /\ Unpaid
  BY DEF Base
<1>1. RowsFine'
  BY <1>0, FiledFine
<1>2. Onwards
  BY <1>0, LeadsOn
<1>3. /\ req' \in [Requests -> Request]
      /\ \A o \in Requests : req'[o].arg \in Ids' /\ req'[o].read.doc \in Ids'
      /\ RequestsOK'
      /\ \A o, p \in Requests : req'[o].pc = "invoice" /\ req'[p].sale = req'[o].sale => p = o
  BY <1>0, <1>2, RequestsRest
<1>4. DOMAIN docs' = DOMAIN docs
  BY DEF Filed
<1>5. /\ pay' \in [Sales -> {"none", "matched", "reversed"}]
      /\ etims' \in {"unconfigured", "initialized", "failed"}
  BY <1>0 DEF TypeOK
<1> QED
  BY <1>1, <1>2, <1>3, <1>4, <1>5, BaseStep

\* A request begins or goes on without writing to a table.
LEMMA StartStep ==
  ASSUME Base, NEW r \in Requests, NEW q \in Request, Becomes(r, q), UNCHANGED <<docs, pay, queue>>,
         etims' \in {"unconfigured", "initialized", "failed"}, mishap' \subseteq Mishaps, ops' \in 0 .. MaxOps,
         RequestOK(q), q.arg \in Ids, q.read.doc \in Ids,
         q.sale = NoSale \/ pay[q.sale] # "none" \/ \A o \in Requests : req[o].sale # q.sale,
         q.pc = "invoice" => \A o \in Requests : req[o].sale # q.sale
  PROVE  Base'
<1>0. TypeOK /\ RequestsOK /\ Unpaid
  BY DEF Base
<1>1. Onwards
  BY <1>0, LeadsOn
<1>2. RequestOK(q)' /\ q.arg \in Ids' /\ q.read.doc \in Ids'
  BY DEF RequestOK, IsAcked, Ids
<1>3. ASSUME NEW o \in Requests, req[o].pc = "invoice" PROVE pay'[req[o].sale] = "none" /\ q.sale # req[o].sale
  <2>1. req[o].sale \in Sales /\ pay[req[o].sale] = "none"
    BY <1>0, <1>3 DEF RequestsOK, RequestOK
  <2> QED
    BY <2>1, DocumentsAssumption
<1>4. /\ req' \in [Requests -> Request]
      /\ \A o \in Requests : req'[o].arg \in Ids' /\ req'[o].read.doc \in Ids'
      /\ RequestsOK'
      /\ \A o, p \in Requests : req'[o].pc = "invoice" /\ req'[p].sale = req'[o].sale => p = o
  BY <1>0, <1>1, <1>2, <1>3, RequestActs
<1>5. RowsFine' /\ pay' \in [Sales -> {"none", "matched", "reversed"}] /\ queue' \subseteq DOMAIN docs'
  BY <1>0 DEF TypeOK, RowsFine
<1> QED
  BY <1>1, <1>4, <1>5, BaseStep

\* What a request reads.
Reads == [doc : Nat, acked : BOOLEAN, ready : BOOLEAN]

\* A claim, as it begins.
LEMMA FreshClaim ==
  ASSUME NEW arg \in Nat
  PROVE  LET q == [Idle EXCEPT !.pc = "claim", !.arg = arg] IN
         q \in Request /\ q.pc = "claim" /\ q.sale = NoSale /\ q.arg = arg /\ q.read = NoRead
<1>1. PICK q : q = [Idle EXCEPT !.pc = "claim", !.arg = arg]
  OBVIOUS
<1>2. q = [pc |-> "claim", sale |-> NoSale, arg |-> arg, read |-> NoRead]
  BY <1>1 DEF Idle
<1>3. NoRead \in Reads /\ NoDoc \in Nat
  BY DEF NoRead, Reads, NoDoc
<1>4. q \in Request /\ q.pc = "claim" /\ q.sale = NoSale /\ q.arg = arg /\ q.read = NoRead
  BY <1>2, <1>3 DEF Request, Reads
<1> QED
  BY <1>1, <1>4

\* The configuration, as it begins.
LEMMA FreshSet ==
  ASSUME NEW read \in Reads
  PROVE  LET q == [Idle EXCEPT !.pc = "set", !.read = read] IN
         q \in Request /\ q.pc = "set" /\ q.sale = NoSale /\ q.arg = NoDoc /\ q.read = read
<1>1. PICK q : q = [Idle EXCEPT !.pc = "set", !.read = read]
  OBVIOUS
<1>2. q = [pc |-> "set", sale |-> NoSale, arg |-> NoDoc, read |-> read]
  BY <1>1 DEF Idle
<1>3. NoRead \in Reads /\ NoDoc \in Nat
  BY DEF NoRead, Reads, NoDoc
<1>4. q \in Request /\ q.pc = "set" /\ q.sale = NoSale /\ q.arg = NoDoc /\ q.read = read
  BY <1>2, <1>3 DEF Request, Reads
<1> QED
  BY <1>1, <1>4

\* The chain of an invoice ends at a row there is; a lookup of a code fails or
\* ends at the row of the code.
LEMMA LookupsEnd ==
  ASSUME TypeOK, NEW d \in DOMAIN docs
  PROVE  /\ ActiveInvoice(docs, d) \in DOMAIN docs /\ docs[ActiveInvoice(docs, d)].by = NoDoc
         /\ GetInvoiceByReceiptCode(docs, d) \in {NoDoc, d}
<1>1. Forward(docs)
  BY Table
<1> QED
  BY <1>1, ChainEnds DEF GetInvoiceByReceiptCode

\* A request that begins adds one to the count.
LEMMA AsksIs ==
  ASSUME TypeOK, NEW r, NEW op, Asks(r, op)
  PROVE  ops' \in 0 .. MaxOps
BY DocumentsAssumption DEF TypeOK, Asks

\* The first invoice of a sale is begun.
LEMMA CreateStep ==
  ASSUME Base, NEW r \in Requests, NEW s \in Sales, CreateInvoiceForSale(r, s)
  PROVE  Base'
<1>0. TypeOK /\ RequestsOK /\ Unpaid
  BY DEF Base
<1>9. PICK read : read = ReadForInvoice(s)
  OBVIOUS
<1>1. read = ReadForInvoice(s) /\ read.doc = NoDoc /\ read \in Reads
  BY <1>9 DEF ReadForInvoice, NoDoc, Ready, Reads
<1>2. PICK q : q = [Idle EXCEPT !.pc = "invoice", !.sale = s, !.read = read]
  OBVIOUS
<1>3. q \in Request /\ q.pc = "invoice" /\ q.sale = s /\ q.arg = NoDoc /\ q.read = read
  <2>1. q = [pc |-> "invoice", sale |-> s, arg |-> NoDoc, read |-> read]
    BY <1>1, <1>2 DEF Idle
  <2>2. NoDoc \in Nat /\ read \in Reads
    BY <1>1, <1>2 DEF NoDoc
  <2> QED
    BY <2>1, <2>2 DEF Request, Reads
<1>4. Becomes(r, q)
  BY <1>1, <1>2 DEF CreateInvoiceForSale
<1>5. RequestOK(q)
  BY <1>3 DEF RequestOK, CreateInvoiceForSale
<1>6. NoDoc \in Ids
  BY <1>0, Table DEF Ids, NoDoc
<1>7. /\ etims' \in {"unconfigured", "initialized", "failed"} /\ mishap' \subseteq Mishaps /\ ops' \in 0 .. MaxOps
      /\ UNCHANGED <<docs, pay, queue>>
  BY <1>0, AsksIs DEF CreateInvoiceForSale, TypeOK
<1>8. \A o \in Requests : req[o].sale # q.sale
  BY <1>3 DEF CreateInvoiceForSale
<1> QED
  BY <1>1, <1>3, <1>4, <1>5, <1>6, <1>7, <1>8, StartStep

\* A reversal is begun.
LEMMA ReverseStep ==
  ASSUME Base, NEW r \in Requests, NEW s \in Sales, reversalArrives(r, s)
  PROVE  Base'
<1>0. TypeOK /\ RequestsOK /\ Unpaid
  BY DEF Base
<1>1. PICK d : d = GetAckedInvoiceForSale(docs, s)
  OBVIOUS
<1>2. d # NoDoc => d \in DOMAIN docs /\ docs[d].sale = s /\ IsAcked(d)
  BY <1>0, <1>1, AckedIs, Table DEF IsAcked
<1>3. d \in Ids /\ d \in Nat /\ NoDoc \in Ids
  BY <1>0, <1>2, Table DEF Ids, NoDoc
<1>10. PICK read : read = ReadForReversal(s)
  OBVIOUS
<1>4. read = ReadForReversal(s) /\ read.doc = d /\ read \in Reads
  BY <1>1, <1>3, <1>10 DEF ReadForReversal, Reads
<1>5. PICK q : q = [Idle EXCEPT !.pc = "reversal", !.sale = s, !.read = read]
  OBVIOUS
<1>6. q \in Request /\ q.pc = "reversal" /\ q.sale = s /\ q.arg = NoDoc /\ q.read = read
  <2>1. q = [pc |-> "reversal", sale |-> s, arg |-> NoDoc, read |-> read]
    BY <1>4, <1>5 DEF Idle
  <2>2. NoDoc \in Nat /\ read \in Reads
    BY <1>4, <1>5 DEF NoDoc
  <2> QED
    BY <2>1, <2>2 DEF Request, Reads
<1>7. Becomes(r, q) /\ pay[s] # "none"
  BY <1>4, <1>5 DEF reversalArrives
<1>8. RequestOK(q)
  BY <1>2, <1>4, <1>6, <1>7 DEF RequestOK
<1>9. /\ etims' \in {"unconfigured", "initialized", "failed"} /\ mishap' \subseteq Mishaps /\ ops' \in 0 .. MaxOps
      /\ UNCHANGED <<docs, pay, queue>>
  BY <1>0, AsksIs DEF reversalArrives, TypeOK
<1> QED
  BY <1>3, <1>4, <1>6, <1>7, <1>8, <1>9, StartStep

\* A reissue is begun, of the end of the chain.
LEMMA ReissueBegins ==
  ASSUME Base, NEW r \in Requests, NEW d \in DOMAIN docs, StartReissue(r, d), UNCHANGED <<docs, pay, etims, queue, mishap>>,
         ops' \in 0 .. MaxOps
  PROVE  Base'
<1>0. TypeOK /\ RequestsOK /\ Unpaid
  BY DEF Base
<1>1. PICK orig \in DOMAIN docs : orig = ActiveInvoice(docs, d)
  BY <1>0, LookupsEnd
<1>2. orig \in Ids /\ orig \in Nat /\ NoDoc \in Ids /\ orig # NoDoc /\ d \in Ids /\ d \in Nat /\ d # NoDoc
  BY <1>0, Table DEF Ids, NoDoc
<1>10. PICK read : read = ReadForReissue(d)
  OBVIOUS
<1>11. read = [doc |-> orig, acked |-> docs[orig].state = "ACKED", ready |-> Ready]
  BY <1>1, <1>10 DEF ReadForReissue
<1>3. /\ read = ReadForReissue(d) /\ read.doc = orig /\ read.acked = (docs[orig].state = "ACKED")
      /\ read \in Reads
  BY <1>2, <1>10, <1>11 DEF Ready, Reads
<1>4. docs[orig].kind = "INVOICE"
  BY <1>3 DEF StartReissue
<1>5. PICK q : q = [Idle EXCEPT !.pc = "reissue", !.arg = d, !.read = read]
  OBVIOUS
<1>6. q \in Request /\ q.pc = "reissue" /\ q.sale = NoSale /\ q.arg = d /\ q.read = read
  <2>1. q = [pc |-> "reissue", sale |-> NoSale, arg |-> d, read |-> read]
    BY <1>2, <1>3, <1>5 DEF Idle
  <2>2. NoDoc \in Nat /\ read \in Reads /\ d \in Nat
    BY <1>2, <1>3, <1>5 DEF NoDoc
  <2> QED
    BY <2>1, <2>2 DEF Request, Reads
<1>7. Becomes(r, q)
  BY <1>3, <1>5 DEF StartReissue
<1>8. RequestOK(q)
  BY <1>2, <1>3, <1>4, <1>6, DocumentsAssumption DEF RequestOK
<1>9. etims' \in {"unconfigured", "initialized", "failed"} /\ mishap' \subseteq Mishaps
  BY <1>0 DEF TypeOK
<1> QED
  BY <1>2, <1>3, <1>6, <1>7, <1>8, <1>9, StartStep

\* A claim is begun with the document its code leads to.
LEMMA ClaimStep ==
  ASSUME Base, NEW r \in Requests, NEW d \in DOMAIN docs, ClaimReceiptByCode(r, d)
  PROVE  Base'
<1>0. TypeOK /\ RequestsOK /\ Unpaid
  BY DEF Base
<1>1. PICK e \in DOMAIN docs : e = GetInvoiceByReceiptCode(docs, d)
  BY <1>0, LookupsEnd DEF ClaimReceiptByCode
<1>2. e \in Ids /\ e \in Nat /\ e # NoDoc /\ NoDoc \in Ids
  BY <1>0, Table DEF Ids, NoDoc
<1>3. PICK q : q = [Idle EXCEPT !.pc = "claim", !.arg = e]
  OBVIOUS
<1>4. NoRead \in [doc : Nat, acked : BOOLEAN, ready : BOOLEAN] /\ NoRead.doc = NoDoc /\ NoDoc \in Nat
  BY DEF NoRead, NoDoc
<1>5. q \in Request /\ q.pc = "claim" /\ q.sale = NoSale /\ q.arg = e /\ q.read = NoRead
  BY <1>2, <1>3, FreshClaim
<1>6. Becomes(r, q)
  BY <1>1, <1>3 DEF ClaimReceiptByCode
<1>7. RequestOK(q)
  BY <1>2, <1>5, DocumentsAssumption DEF RequestOK
<1>8. /\ etims' \in {"unconfigured", "initialized", "failed"} /\ mishap' \subseteq Mishaps /\ ops' \in 0 .. MaxOps
      /\ UNCHANGED <<docs, pay, queue>>
  BY <1>0, AsksIs DEF ClaimReceiptByCode, TypeOK
<1> QED
  BY <1>2, <1>4, <1>5, <1>6, <1>7, <1>8, StartStep

\* A credit note is begun, of an invoice it may be made for.
LEMMA CreditBegins ==
  ASSUME Base, NEW r \in Requests, NEW d \in DOMAIN docs, createCreditNote(r, d)
  PROVE  Base'
<1>0. TypeOK /\ RequestsOK /\ Unpaid
  BY DEF Base
<1>1. d \in Ids /\ d \in Nat /\ d # NoDoc
  BY <1>0, Table DEF Ids, NoDoc
<1>9. PICK read : read = ReadForCredit(d)
  OBVIOUS
<1>2. /\ read = ReadForCredit(d) /\ read.doc = d /\ read.acked = (docs[d].state = "ACKED")
      /\ read \in Reads
  BY <1>1, <1>9 DEF ReadForCredit, Ready, Reads
<1>3. docs[d].kind = "INVOICE"
  BY DEF createCreditNote, MayCredit
<1>4. PICK q : q = [Idle EXCEPT !.pc = "credit", !.arg = d, !.read = read]
  OBVIOUS
<1>5. q \in Request /\ q.pc = "credit" /\ q.sale = NoSale /\ q.arg = d /\ q.read = read
  <2>1. q = [pc |-> "credit", sale |-> NoSale, arg |-> d, read |-> read]
    BY <1>1, <1>2, <1>4 DEF Idle
  <2>2. NoDoc \in Nat /\ read \in Reads /\ d \in Nat
    BY <1>1, <1>2, <1>4 DEF NoDoc
  <2> QED
    BY <2>1, <2>2 DEF Request, Reads
<1>6. Becomes(r, q)
  BY <1>2, <1>4 DEF createCreditNote
<1>7. RequestOK(q)
  BY <1>1, <1>2, <1>3, <1>5, DocumentsAssumption DEF RequestOK
<1>8. /\ etims' \in {"unconfigured", "initialized", "failed"} /\ mishap' \subseteq Mishaps /\ ops' \in 0 .. MaxOps
      /\ UNCHANGED <<docs, pay, queue>>
  BY <1>0, AsksIs DEF createCreditNote, TypeOK
<1> QED
  BY <1>1, <1>2, <1>5, <1>6, <1>7, <1>8, StartStep

\* A request gives up, or has nothing more to do.
LEMMA StopStep ==
  ASSUME Base, NEW r \in Requests, Becomes(r, Idle), UNCHANGED <<docs, pay, queue>>,
         etims' \in {"unconfigured", "initialized", "failed"}, mishap' \subseteq Mishaps, ops' \in 0 .. MaxOps
  PROVE  Base'
<1>0. TypeOK /\ RequestsOK /\ Unpaid
  BY DEF Base
<1>1. Onwards
  BY <1>0, LeadsOn
<1>2. \A o \in Requests : o # r /\ req[o].pc = "invoice" => pay'[req[o].sale] = "none"
  BY <1>0 DEF RequestsOK, RequestOK
<1>3. /\ req' \in [Requests -> Request]
      /\ \A o \in Requests : req'[o].arg \in Ids' /\ req'[o].read.doc \in Ids'
      /\ RequestsOK'
      /\ \A o, p \in Requests : req'[o].pc = "invoice" /\ req'[p].sale = req'[o].sale => p = o
  BY <1>0, <1>1, <1>2, RequestEnds
<1>4. RowsFine' /\ pay' \in [Sales -> {"none", "matched", "reversed"}] /\ queue' \subseteq DOMAIN docs'
  BY <1>0 DEF TypeOK, RowsFine
<1> QED
  BY <1>1, <1>3, <1>4, BaseStep

\* The buyer's claim goes on to the reissue, or stops at a credit note.
LEMMA ClaimGoesOn ==
  ASSUME Base, NEW r \in Requests, ClaimReissues(r)
  PROVE  Base'
<1>0. TypeOK /\ RequestsOK /\ Unpaid
  BY DEF Base
<1>1. PICK d \in DOMAIN docs : d = req[r].arg
  BY <1>0, RequestIs DEF ClaimReissues, RequestOK
<1>2. UNCHANGED <<docs, pay, etims, queue, mishap, ops>>
  BY DEF ClaimReissues
<1>3. etims' \in {"unconfigured", "initialized", "failed"} /\ mishap' \subseteq Mishaps /\ ops' \in 0 .. MaxOps
  BY <1>0, <1>2 DEF TypeOK
<1>4. StartReissue(r, d) \/ Becomes(r, Idle)
  BY <1>1 DEF ClaimReissues
<1> QED
  BY <1>1, <1>2, <1>3, <1>4, ReissueBegins, StopStep

\* The configuration of eTIMS.
LEMMA ConfigureStep ==
  ASSUME Base, NEW r \in Requests, ConfigureEtims(r) \/ SetEtimsConfigured(r) \/ SetEtimsFailed(r)
  PROVE  Base'
<1>0. TypeOK /\ RequestsOK /\ Unpaid
  BY DEF Base
<1>1. NoDoc \in Ids
  BY <1>0, Table DEF Ids, NoDoc
<1>2. CASE ConfigureEtims(r)
  <2>1. PICK ok \in BOOLEAN : /\ Asks(r, "configure")
                              /\ Becomes(r, [Idle EXCEPT !.pc = "set", !.read = [NoRead EXCEPT !.ready = ok]])
                              /\ UNCHANGED <<docs, pay, etims, queue, mishap>>
    BY <1>2 DEF ConfigureEtims
  <2>2. PICK read : read = [NoRead EXCEPT !.ready = ok]
    OBVIOUS
  <2>3. read = [doc |-> 0, acked |-> FALSE, ready |-> ok]
    BY <2>2 DEF NoRead, NoDoc
  <2>4. read \in Reads /\ read.doc = NoDoc
    BY <2>3 DEF Reads, NoDoc
  <2>5. PICK q : q = [Idle EXCEPT !.pc = "set", !.read = read]
    OBVIOUS
  <2>6. q \in Request /\ q.pc = "set" /\ q.sale = NoSale /\ q.arg = NoDoc /\ q.read = read
    BY <2>4, <2>5, FreshSet
  <2>7. Becomes(r, q)
    BY <2>1, <2>2, <2>5
  <2>8. RequestOK(q)
    BY <2>6, DocumentsAssumption DEF RequestOK
  <2>9. /\ etims' \in {"unconfigured", "initialized", "failed"} /\ mishap' \subseteq Mishaps /\ ops' \in 0 .. MaxOps
        /\ UNCHANGED <<docs, pay, queue>>
    BY <1>0, <2>1, AsksIs DEF TypeOK
  <2> QED
    BY <1>1, <2>4, <2>6, <2>7, <2>8, <2>9, StartStep
<1>3. CASE SetEtimsConfigured(r)
  <2>1. PICK p \in Request : p = req[r]
    BY <1>0, RequestIs
  <2>2. RequestOK(p) /\ p.pc = "set" /\ p.arg \in Ids /\ p.read.doc \in Ids /\ p.sale \in Sales \cup {NoSale}
    BY <1>0, <1>3, <2>1 DEF TypeOK, RequestsOK, SetEtimsConfigured, Request
  <2>3. PICK q : q = [p EXCEPT !.pc = "activate"]
    OBVIOUS
  <2>4. q \in Request /\ q.pc = "activate" /\ q.sale = p.sale /\ q.arg = p.arg /\ q.read = p.read
    BY <2>3 DEF Request
  <2>5. q.sale = NoSale
    BY <2>2, <2>4 DEF RequestOK
  <2>6. RequestOK(q)
    BY <2>4, <2>5, DocumentsAssumption DEF RequestOK
  <2>7. Becomes(r, q)
    BY <1>3, <2>1, <2>3 DEF SetEtimsConfigured
  <2>8. /\ etims' \in {"unconfigured", "initialized", "failed"} /\ mishap' \subseteq Mishaps /\ ops' \in 0 .. MaxOps
        /\ UNCHANGED <<docs, pay, queue>>
    BY <1>0, <1>3 DEF TypeOK, SetEtimsConfigured
  <2> QED
    BY <2>2, <2>4, <2>5, <2>6, <2>7, <2>8, StartStep
<1>4. CASE SetEtimsFailed(r)
  <2>1. /\ etims' \in {"unconfigured", "initialized", "failed"} /\ mishap' \subseteq Mishaps /\ ops' \in 0 .. MaxOps
        /\ UNCHANGED <<docs, pay, queue>> /\ Becomes(r, Idle)
    BY <1>0, <1>4 DEF TypeOK, SetEtimsFailed
  <2> QED
    BY <2>1, StopStep
<1> QED
  BY <1>2, <1>3, <1>4

\* The activation.
LEMMA ActivateStep ==
  ASSUME Base, NEW r \in Requests, ActivateTaxPending(r)
  PROVE  Base'
<1>0. TypeOK /\ RequestsOK /\ Unpaid
  BY DEF Base
<1>1. /\ Filed
      /\ \A x \in DOMAIN docs : /\ docs'[x].cites = docs[x].cites
                                /\ docs'[x].state = IF docs[x].state = "TAX_PENDING" THEN "QUEUED" ELSE docs[x].state
  BY <1>0, ActivateIs
<1>2. /\ UNCHANGED <<pay, etims, mishap, ops>> /\ Becomes(r, Idle)
      /\ queue' = queue \cup ActivateTaxPendingInvoices
  BY DEF ActivateTaxPending
<1>3. RowsFine'
  BY <1>0, <1>1, FiledFine
<1>4. Onwards
  <2>1. \A x \in DOMAIN docs : docs[x].state = "ACKED" => docs'[x].state = "ACKED"
    BY <1>1
  <2> QED
    BY <1>0, <1>1, <1>2, <2>1, LeadsOn
<1>5. \A o \in Requests : o # r /\ req[o].pc = "invoice" => pay'[req[o].sale] = "none"
  BY <1>0, <1>2 DEF RequestsOK, RequestOK
<1>6. /\ req' \in [Requests -> Request]
      /\ \A o \in Requests : req'[o].arg \in Ids' /\ req'[o].read.doc \in Ids'
      /\ RequestsOK'
      /\ \A o, p \in Requests : req'[o].pc = "invoice" /\ req'[p].sale = req'[o].sale => p = o
  BY <1>0, <1>2, <1>4, <1>5, RequestEnds
<1>7. DOMAIN docs' = DOMAIN docs
  BY <1>1 DEF Filed
<1>8. /\ pay' \in [Sales -> {"none", "matched", "reversed"}] /\ queue' \subseteq DOMAIN docs'
      /\ etims' \in {"unconfigured", "initialized", "failed"} /\ mishap' \subseteq Mishaps /\ ops' \in 0 .. MaxOps
  BY <1>0, <1>2, <1>7 DEF TypeOK, ActivateTaxPendingInvoices
<1> QED
  BY <1>3, <1>4, <1>6, <1>7, <1>8, BaseStep

\* Filing, step by step.
LEMMA FileStep ==
  ASSUME Base, NEW d \in DOMAIN docs,
         Submit(d) \/ AckInvoice(d) \/ RetryLater(d) \/ Park(d) \/ retryInvoice(d)
  PROVE  Base'
<1>0. TypeOK
  BY DEF Base
<1>1. CASE Submit(d)
  <2>1. /\ Filed /\ docs[d].state = "QUEUED"
        /\ \A x \in DOMAIN docs : docs'[x].cites = docs[x].cites \/ docs'[x].cites \in {NoDoc, docs[x].parent}
        /\ \A x \in DOMAIN docs : docs'[x].state = IF x = d THEN "SUBMITTED" ELSE docs[x].state
    BY <1>0, <1>1, SubmitIs DEF Submit
  <2>2. /\ UNCHANGED <<pay, etims, req>> /\ queue' \subseteq DOMAIN docs /\ mishap' \subseteq Mishaps
        /\ ops' \in 0 .. MaxOps
    BY <1>0, <1>1 DEF Submit, TypeOK
  <2> QED
    BY <2>1, <2>2, FilingStep
<1>2. CASE AckInvoice(d) \/ RetryLater(d) \/ Park(d) \/ retryInvoice(d)
  <2>1. PICK st \in States : Moves(d, st)
    BY <1>2 DEF AckInvoice, RetryLater, Park, retryInvoice, States
  <2>2. docs[d].state # "ACKED"
    BY <1>2 DEF AckInvoice, RetryLater, Park, retryInvoice
  <2>3. /\ Filed
        /\ \A x \in DOMAIN docs : docs'[x].cites = docs[x].cites
        /\ \A x \in DOMAIN docs : docs[x].state = "ACKED" => docs'[x].state = "ACKED"
    BY <1>0, <2>1, <2>2, MovesIs
  <2>4. /\ UNCHANGED <<pay, etims, req>> /\ queue' \subseteq DOMAIN docs /\ mishap' \subseteq Mishaps
        /\ ops' \in 0 .. MaxOps
    BY <1>0, <1>2, DocumentsAssumption DEF AckInvoice, RetryLater, Park, retryInvoice, TypeOK
  <2> QED
    BY <2>3, <2>4, FilingStep
<1> QED
  BY <1>1, <1>2

\* At first there is no document and no request.
LEMMA InitBase == Init => Base
<1> SUFFICES ASSUME Init PROVE Base
  OBVIOUS
<1>1. docs = <<>> /\ Len(docs) = 0 /\ DOMAIN docs = {} /\ docs \in Seq(Doc)
  BY EmptySeq DEF Init
<1>2. /\ Idle \in Request /\ Idle.arg = NoDoc /\ Idle.read.doc = NoDoc /\ Idle.sale = NoSale /\ Idle.pc = "idle"
  BY IdleOK
<1>3. \A r \in Requests : req[r] = Idle
  BY DEF Init
<1>4. TypeOK
  <2>1. NoDoc \in Ids
    BY <1>1 DEF Ids, NoDoc
  <2>2. req \in [Requests -> Request]
    BY <1>2 DEF Init
  <2> QED
    BY <1>1, <1>2, <1>3, <2>1, <2>2, DocumentsAssumption DEF TypeOK, Init
<1>5. RequestsOK
  BY <1>2, <1>3, DocumentsAssumption DEF RequestsOK, RequestOK
<1>6. Unpaid
  BY <1>1, <1>2, <1>3 DEF Unpaid
<1> QED
  BY <1>4, <1>5, <1>6 DEF Base

\* The invariant is inductive.
LEMMA NextBase == Base /\ [Next]_vars => Base'
<1> SUFFICES ASSUME Base, [Next]_vars PROVE Base'
  OBVIOUS
<1>0. TypeOK
  BY DEF Base
<1>1. ASSUME NEW r \in Requests, Ends(r) PROVE Base'
  <2>1. /\ etims' \in {"unconfigured", "initialized", "failed"} /\ mishap' \subseteq Mishaps /\ ops' \in 0 .. MaxOps
        /\ UNCHANGED <<docs, pay, queue>> /\ Becomes(r, Idle)
    BY <1>0, <1>1 DEF TypeOK, Ends, Mishaps
  <2> QED
    BY <2>1, StopStep
<1>2. ASSUME NEW r \in Requests, NEW d \in DOMAIN docs, reissueInvoice(r, d) PROVE Base'
  <2>1. StartReissue(r, d) /\ UNCHANGED <<docs, pay, etims, queue, mishap>> /\ Asks(r, "reissue")
    BY <1>2 DEF reissueInvoice
  <2>2. ops' \in 0 .. MaxOps
    BY <1>0, <2>1, AsksIs
  <2> QED
    BY <2>1, <2>2, ReissueBegins
<1>3. CASE UNCHANGED vars
  BY <1>3 DEF vars, Base, TypeOK, RequestsOK, RequestOK, Unpaid, Ids, IsAcked
<1> QED
  BY <1>1, <1>2, <1>3, CreateStep, ReverseStep, ClaimStep, CreditBegins, InvoiceStep, ClaimGoesOn, ReissueStep,
     CreditStep, ReversalStep, ConfigureStep, ActivateStep, FileStep DEF Next

\* The rows, payments and requests are as Base says, whatever the requests do.
LEMMA BaseHolds == Spec => []Base
BY InitBase, NextBase, PTL DEF Spec

\* Ids point at rows there are, a superseding document comes after the one it
\* supersedes and a parent before its child, whatever the requests of the
\* merchant, the buyers and the queue do at the same time.
THEOREM TypeCorrect == Spec => []TypeOK
<1>1. Base => TypeOK
  BY DEF Base
<1> QED
  BY <1>1, BaseHolds, PTL

-----------------------------------------------------------------------------
(* What a step does, by its kind.                                          *)

\* A request commits a change of documents.
Commits(r) == CommitInvoice(r) \/ ReissueInvoice(r) \/ CreateCreditNoteForInvoice(r) \/ applyReversal(r)

\* A document moves on towards KRA.
Files(d) == Submit(d) \/ AckInvoice(d) \/ RetryLater(d) \/ Park(d) \/ retryInvoice(d)

\* Documents change by a commit, by the activation and by filing.
LEMMA StepKinds ==
  ASSUME Base, [Next]_vars
  PROVE  \/ \E r \in Requests : Commits(r) \/ ActivateTaxPending(r)
         \/ \E d \in DOMAIN docs : Files(d)
         \/ UNCHANGED docs
<1>1. CASE UNCHANGED vars
  BY <1>1 DEF vars
<1>2. CASE Next
  BY <1>2 DEF Next, Commits, Files, CreateInvoiceForSale, reversalArrives, reissueInvoice, ClaimReceiptByCode,
              createCreditNote, ClaimReissues, ConfigureEtims, SetEtimsConfigured, SetEtimsFailed, Ends
<1> QED
  BY <1>1, <1>2

\* No mishap is forgotten.
LEMMA MishapsStay ==
  ASSUME Base, [Next]_vars
  PROVE  mishap \subseteq mishap'
<1>1. CASE UNCHANGED vars
  BY <1>1 DEF vars
<1>2. CASE Next
  BY <1>2 DEF Next, Noted, CreateInvoiceForSale, reversalArrives, reissueInvoice, ClaimReceiptByCode,
              createCreditNote, ClaimReissues, ConfigureEtims, SetEtimsConfigured, SetEtimsFailed, Ends,
              CommitInvoice, ReissueInvoice, CreateCreditNoteForInvoice, applyReversal, ActivateTaxPending,
              Submit, AckInvoice, RetryLater, Park, retryInvoice
<1> QED
  BY <1>1, <1>2

\* Filing leaves the pointers and the kinds alone.
LEMMA FilesIs ==
  ASSUME Base, NEW d \in DOMAIN docs, Files(d)
  PROVE  Filed
<1>0. TypeOK
  BY DEF Base
<1>1. CASE Submit(d)
  BY <1>0, <1>1, SubmitIs
<1>2. CASE ~Submit(d)
  <2>1. PICK st \in States : Moves(d, st)
    BY <1>2 DEF Files, AckInvoice, RetryLater, Park, retryInvoice, States
  <2> QED
    BY <1>0, <2>1, MovesIs
<1> QED
  BY <1>1, <1>2

-----------------------------------------------------------------------------
(* No document is superseded twice.                                        *)

\* A reissue that is not stale replaces a document that nothing supersedes.
LEMMA ReplacesLive ==
  ASSUME Base, NEW r \in Requests, ReissueInvoice(r), NEW orig, orig = req[r].read.doc, "stale" \notin mishap'
  PROVE  docs[orig].by = NoDoc
<1>0. TypeOK /\ RequestsOK
  BY DEF Base
<1>1. req[r].pc = "reissue" /\ req[r].arg \in DOMAIN docs
  BY <1>0, RequestIs DEF ReissueInvoice, RequestOK
<1>2. \E kinds : Noted(r, kinds)
  BY DEF ReissueInvoice
<1>3. req[r].read = ReadAgain(r)
  BY <1>2 DEF Noted
<1>4. ReadAgain(r) = ReadForReissue(req[r].arg)
  BY <1>1 DEF ReadAgain
<1>5. orig = ActiveInvoice(docs, req[r].arg)
  BY <1>3, <1>4 DEF ReadForReissue
<1> QED
  BY <1>0, <1>1, <1>5, LookupsEnd

\* A credit note that is not stale is for a document that nothing supersedes.
LEMMA CreditsLive ==
  ASSUME Base, NEW r \in Requests, CreateCreditNoteForInvoice(r), NEW orig, orig = req[r].read.doc,
         "stale" \notin mishap'
  PROVE  docs[orig].by = NoDoc
<1>0. TypeOK /\ RequestsOK
  BY DEF Base
<1>1. req[r].pc = "credit" /\ orig = req[r].arg
  BY <1>0, CreditEffect DEF CreateCreditNoteForInvoice
<1>2. \E kinds : Noted(r, kinds)
  BY DEF CreateCreditNoteForInvoice
<1>3. MayCredit(req[r].arg)
  BY <1>1, <1>2 DEF Noted, Refused
<1> QED
  BY <1>1, <1>3 DEF MayCredit

\* A document that has a successor keeps it, unless two requests crossed:
\* ReissueInvoice goes to the end of the chain and CreateCreditNoteForInvoice
\* refuses what is superseded.
THEOREM SupersededOnceHolds == Spec => SupersededOnce
<1> DEFINE Keeps == \A d \in DOMAIN docs : docs[d].by # NoDoc /\ docs'[d].by # docs[d].by => "stale" \in mishap'
<1>1. ASSUME Base, [Next]_vars PROVE Keeps
  <2> SUFFICES ASSUME NEW d \in DOMAIN docs, docs[d].by # NoDoc, docs'[d].by # docs[d].by, "stale" \notin mishap'
               PROVE  FALSE
    OBVIOUS
  <2>0. TypeOK /\ RequestsOK
    BY <1>1 DEF Base
  <2>1. ASSUME NEW r \in Requests, CommitInvoice(r) PROVE FALSE
    <3>1. Grown(1, {}, NoDoc)
      BY <2>0, <2>1, InvoiceEffect DEF Added
    <3> QED
      BY <3>1 DEF Grown
  <2>2. ASSUME NEW r \in Requests, applyReversal(r) PROVE FALSE
    <3>1. Grown(1, {}, NoDoc) \/ UNCHANGED docs
      BY <2>0, <2>2, ReversalEffect DEF Added
    <3> QED
      BY <3>1 DEF Grown
  <2>3. ASSUME NEW r \in Requests, CreateCreditNoteForInvoice(r) PROVE FALSE
    <3>1. PICK orig : orig = req[r].read.doc
      OBVIOUS
    <3>2. \E by : Grown(1, {orig}, by)
      BY <2>0, <2>3, <3>1, CreditEffect DEF CreditedBy
    <3>3. docs[orig].by = NoDoc
      BY <1>1, <2>3, <3>1, CreditsLive
    <3> QED
      BY <3>2, <3>3 DEF Grown
  <2>4. ASSUME NEW r \in Requests, ReissueInvoice(r) PROVE FALSE
    <3>1. PICK orig : orig = req[r].read.doc
      OBVIOUS
    <3>2. \E k, by : Grown(k, {orig}, by)
      BY <2>0, <2>4, <3>1, ReissueEffect DEF Reissued
    <3>3. docs[orig].by = NoDoc
      BY <1>1, <2>4, <3>1, ReplacesLive
    <3> QED
      BY <3>2, <3>3 DEF Grown
  <2>5. CASE Filed \/ UNCHANGED docs
    BY <2>5 DEF Filed
  <2>6. ASSUME NEW r \in Requests, ActivateTaxPending(r) PROVE FALSE
    BY <2>0, <2>5, <2>6, ActivateIs
  <2> QED
    BY <1>1, <2>1, <2>2, <2>3, <2>4, <2>5, <2>6, StepKinds, FilesIs DEF Commits
<1>2. Base /\ [Next]_vars => [Keeps]_vars
  BY <1>1
<1>3. ([][Keeps]_vars) => SupersededOnce
  BY DEF SupersededOnce
<1> HIDE DEF Keeps
<1> QED
  BY <1>2, <1>3, BaseHolds, PTL DEF Spec

-----------------------------------------------------------------------------
(* A sale has one chain of documents.                                      *)

\* Row d of the table after the step leads to a row of its sale, which is an
\* invoice or the last.
LeadsWell(d) ==
    LET e == docs'[d].by
    IN  e # NoDoc => docs'[e].sale = docs'[d].sale /\ (docs'[e].kind = "CREDIT_NOTE" => docs'[e].by = NoDoc)

\* Rows that were there keep leading well: only invoices are superseded.
LEMMA ChainGrows ==
  ASSUME TypeOK, Chained, NEW k \in Nat, NEW D, NEW by, Grown(k, D, by),
         \A d \in D : d \in DOMAIN docs => docs[d].kind = "INVOICE",
         \A d \in D : LeadsWell(d),
         \A d \in Len(docs) + 1 .. Len(docs) + k : LeadsWell(d)
  PROVE  Chained'
<1>1. PICK n \in Nat : n = Len(docs) /\ DOMAIN docs = 1 .. n /\ DOMAIN docs' = 1 .. n + k
  BY DEF Grown
<1>2. ASSUME NEW d \in 1 .. n, d \notin D PROVE LeadsWell(d)
  <2>1. docs'[d].by = docs[d].by /\ docs'[d].sale = docs[d].sale
    BY <1>1, <1>2 DEF Grown, Kept
  <2>2. CASE docs[d].by = NoDoc
    BY <2>1, <2>2 DEF LeadsWell
  <2>3. CASE docs[d].by # NoDoc
    <3>1. docs[d].by \in (d + 1) .. n
      BY <1>1, <2>3 DEF TypeOK
    <3>2. PICK e \in 1 .. n : e = docs[d].by
      BY <3>1
    <3>3. docs[e].sale = docs[d].sale /\ (docs[e].kind = "CREDIT_NOTE" => docs[e].by = NoDoc)
      BY <1>1, <2>3, <3>2 DEF Chained
    <3>4. /\ docs'[e].sale = docs[e].sale /\ docs'[e].kind = docs[e].kind
          /\ docs'[e].by = IF e \in D THEN by ELSE docs[e].by
      BY <1>1 DEF Grown, Kept
    <3>5. docs[e].kind = "CREDIT_NOTE" => e \notin D
      BY <1>1
    <3> QED
      BY <2>1, <3>2, <3>3, <3>4, <3>5 DEF LeadsWell
  <2> QED
    BY <2>2, <2>3
<1>3. \A d \in 1 .. n + k : d \in 1 .. n \/ d \in n + 1 .. n + k
  OBVIOUS
<1>4. \A d \in 1 .. n + k : LeadsWell(d)
  BY <1>1, <1>2, <1>3
<1> QED
  BY <1>1, <1>4 DEF Chained, LeadsWell

\* The chains stay chains, also when requests cross.
LEMMA ChainStep ==
  ASSUME Base, Chained, [Next]_vars
  PROVE  Chained'
<1>0. TypeOK /\ RequestsOK
  BY DEF Base
<1>1. PICK n \in Nat : n = Len(docs) /\ DOMAIN docs = 1 .. n
  BY <1>0, Table
<1>2. ASSUME NEW s, NEW kind, NEW parent, NEW st, Added(s, kind, parent, st) PROVE Chained'
  <2>1. Grown(1, {}, NoDoc) /\ docs'[n + 1].by = NoDoc
    BY <1>1, <1>2 DEF Added
  <2>2. \A d \in n + 1 .. n + 1 : LeadsWell(d)
    <3>1. \A d \in n + 1 .. n + 1 : d = n + 1
      OBVIOUS
    <3> QED
      BY <2>1, <3>1 DEF LeadsWell
  <2> QED
    BY <1>0, <1>1, <2>1, <2>2, ChainGrows
<1>3. ASSUME NEW orig \in DOMAIN docs, docs[orig].kind = "INVOICE", NEW st, CreditedBy(orig, st) PROVE Chained'
  <2>1. Grown(1, {orig}, n + 1) /\ docs'[n + 1].by = NoDoc /\ docs'[n + 1].sale = docs[orig].sale
    BY <1>1, <1>3 DEF CreditedBy, New
  <2>2. docs'[orig].by = n + 1 /\ docs'[orig].sale = docs[orig].sale
    BY <2>1 DEF Grown, Kept
  <2>3. \A d \in n + 1 .. n + 1 : LeadsWell(d)
    <3>1. \A d \in n + 1 .. n + 1 : d = n + 1
      OBVIOUS
    <3> QED
      BY <2>1, <3>1 DEF LeadsWell
  <2>4. LeadsWell(orig)
    BY <2>1, <2>2 DEF LeadsWell
  <2>5. PICK D : D = {orig}
    OBVIOUS
  <2>6. /\ \A d \in D : d \in DOMAIN docs => docs[d].kind = "INVOICE"
        /\ \A d \in D : LeadsWell(d)
        /\ Grown(1, D, n + 1)
    BY <1>3, <2>1, <2>4, <2>5
  <2> QED
    BY <1>0, <1>1, <2>3, <2>6, ChainGrows
<1>4. ASSUME NEW orig \in DOMAIN docs, docs[orig].kind = "INVOICE", NEW st, NEW noted \in BOOLEAN,
             Reissued(orig, st, noted)
      PROVE  Chained'
  <2>1. CASE ~noted
    <3>1. /\ Grown(1, {orig}, n + 1) /\ docs'[n + 1].by = NoDoc /\ docs'[n + 1].sale = docs[orig].sale
          /\ docs'[n + 1].kind = "INVOICE"
      BY <1>1, <1>4, <2>1 DEF Reissued, New
    <3>2. docs'[orig].by = n + 1 /\ docs'[orig].sale = docs[orig].sale
      BY <3>1 DEF Grown, Kept
    <3>3. \A d \in n + 1 .. n + 1 : LeadsWell(d)
      <4>1. \A d \in n + 1 .. n + 1 : d = n + 1
        OBVIOUS
      <4> QED
        BY <3>1, <4>1 DEF LeadsWell
    <3>4. LeadsWell(orig)
      BY <3>1, <3>2 DEF LeadsWell
    <3> QED
      BY <1>0, <1>1, <1>4, <3>1, <3>3, <3>4, ChainGrows
  <2>2. CASE noted
    <3>1. /\ Grown(2, {orig}, n + 2) /\ docs'[n + 2].by = NoDoc /\ docs'[n + 2].sale = docs[orig].sale
          /\ docs'[n + 2].kind = "INVOICE" /\ docs'[n + 1].by = n + 2 /\ docs'[n + 1].sale = docs[orig].sale
      BY <1>1, <1>4, <2>2 DEF Reissued, New
    <3>2. docs'[orig].by = n + 2 /\ docs'[orig].sale = docs[orig].sale
      BY <3>1 DEF Grown, Kept
    <3>3. \A d \in n + 1 .. n + 2 : LeadsWell(d)
      <4>1. \A d \in n + 1 .. n + 2 : d = n + 1 \/ d = n + 2
        OBVIOUS
      <4>2. LeadsWell(n + 1) /\ LeadsWell(n + 2)
        BY <3>1 DEF LeadsWell
      <4> QED
        BY <4>1, <4>2
    <3>4. LeadsWell(orig)
      BY <3>1, <3>2 DEF LeadsWell
    <3>5. PICK D : D = {orig}
      OBVIOUS
    <3>6. /\ \A d \in D : d \in DOMAIN docs => docs[d].kind = "INVOICE"
          /\ \A d \in D : LeadsWell(d)
      BY <1>4, <3>4, <3>5
    <3>7. Grown(2, D, n + 2) /\ \A d \in Len(docs) + 1 .. Len(docs) + 2 : LeadsWell(d)
      BY <1>1, <3>1, <3>3, <3>5
    <3> QED
      BY <1>0, <3>6, <3>7, ChainGrows
  <2> QED
    BY <2>1, <2>2
<1>5. CASE Filed
  <2>1. ASSUME NEW d \in DOMAIN docs', docs'[d].by # NoDoc PROVE LeadsWell(d)
    <3>1. d \in 1 .. n /\ docs'[d].by = docs[d].by /\ docs'[d].sale = docs[d].sale
      BY <1>1, <1>5, <2>1 DEF Filed
    <3>2. docs[d].by \in (d + 1) .. n
      BY <1>0, <1>1, <2>1, <3>1 DEF TypeOK
    <3>3. PICK e \in 1 .. n : e = docs[d].by
      BY <3>1, <3>2
    <3>4. docs'[e].sale = docs[e].sale /\ docs'[e].kind = docs[e].kind /\ docs'[e].by = docs[e].by
      BY <1>1, <1>5 DEF Filed
    <3> QED
      BY <1>1, <2>1, <3>1, <3>3, <3>4 DEF Chained, LeadsWell
  <2> QED
    BY <2>1 DEF Chained, LeadsWell
<1>6. CASE UNCHANGED docs
  BY <1>6 DEF Chained
<1>7. ASSUME NEW r \in Requests, Commits(r) PROVE Chained'
  <2>1. CASE CommitInvoice(r)
    BY <1>0, <1>2, <2>1, InvoiceEffect
  <2>2. CASE applyReversal(r)
    BY <1>0, <1>2, <1>6, <2>2, ReversalEffect
  <2>3. CASE CreateCreditNoteForInvoice(r)
    BY <1>0, <1>3, <2>3, CreditEffect
  <2>4. CASE ReissueInvoice(r)
    BY <1>0, <1>4, <2>4, ReissueEffect, RequestIs
  <2> QED
    BY <1>7, <2>1, <2>2, <2>3, <2>4 DEF Commits
<1>8. ASSUME NEW r \in Requests, ActivateTaxPending(r) PROVE Filed
  BY <1>0, <1>8, ActivateIs
<1> QED
  BY <1>5, <1>6, <1>7, <1>8, StepKinds, FilesIs

\* No row that was there becomes an end, and one that is superseded is none.
LEMMA EndsStay ==
  ASSUME TypeOK, NEW k \in Nat, NEW D, NEW by, Grown(k, D, by), D # {} => by \in Nat /\ by > Len(docs),
         \A x \in Len(docs) + 1 .. Len(docs) + k : docs'[x].by \notin 1 .. Len(docs),
         NEW d \in DOMAIN docs, IsEnd(d)'
  PROVE  IsEnd(d) /\ d \notin D
<1>1. PICK n \in Nat : n = Len(docs) /\ DOMAIN docs = 1 .. n /\ DOMAIN docs' = 1 .. n + k
  BY DEF Grown
<1>2. docs'[d].by = NoDoc
  BY DEF IsEnd
<1>3. d \notin D /\ docs[d].by = NoDoc
  BY <1>1, <1>2 DEF Grown, NoDoc
<1>4. docs'[d].kind = docs[d].kind
  BY DEF Grown, Kept
<1>5. ASSUME NEW x \in 1 .. n + k, docs'[x].by = d PROVE \E y \in 1 .. n : docs[y].by = d
  <2>1. x \in 1 .. n
    BY <1>1, <1>5
  <2>2. docs'[x].by = IF x \in D THEN by ELSE docs[x].by
    BY <1>1, <2>1 DEF Grown
  <2>3. x \notin D
    BY <1>1, <1>5, <2>2
  <2> QED
    BY <1>5, <2>1, <2>2, <2>3
<1> QED
  BY <1>1, <1>3, <1>4, <1>5 DEF IsEnd

\* A document of its own, for a sale that has none or as a credit note nothing
\* leads to.
LEMMA AddedApart ==
  ASSUME Base, EndsApart, NEW s, NEW kind, NEW parent, NEW st, Added(s, kind, parent, st),
         kind = "CREDIT_NOTE" \/ \A d \in DOMAIN docs : docs[d].sale # s
  PROVE  EndsApart'
<1>0. TypeOK
  BY DEF Base
<1>1. PICK n \in Nat : n = Len(docs) /\ DOMAIN docs = 1 .. n /\ DOMAIN docs' = 1 .. n + 1
  BY DEF Added, Grown
<1>2. /\ Grown(1, {}, NoDoc) /\ docs'[n + 1].by = NoDoc /\ docs'[n + 1].sale = s /\ docs'[n + 1].kind = kind
  BY <1>1 DEF Added, New
<1>3. \A x \in n + 1 .. n + 1 : docs'[x].by \notin 1 .. n
  <2>1. \A x \in n + 1 .. n + 1 : x = n + 1
    OBVIOUS
  <2> QED
    BY <1>2, <2>1 DEF NoDoc
<1>4. \A d \in 1 .. n : docs'[d].sale = docs[d].sale /\ docs'[d].by = docs[d].by
  BY <1>1, <1>2 DEF Grown, Kept
<1>5. ASSUME NEW d \in 1 .. n, IsEnd(d)' PROVE IsEnd(d)
  BY <1>0, <1>1, <1>2, <1>3, <1>5, EndsStay
<1>6. ASSUME IsEnd(n + 1)' PROVE \A d \in 1 .. n : docs[d].sale # s
  <2>1. ASSUME NEW x \in 1 .. n + 1, docs'[x].by = n + 1 PROVE FALSE
    <3>1. x \in 1 .. n
      BY <1>2, <2>1 DEF NoDoc
    <3>2. docs[x].by = n + 1
      BY <1>4, <2>1, <3>1
    <3>3. docs[x].by \in {0} \cup ((x + 1) .. n)
      BY <1>0, <1>1, <3>1 DEF TypeOK, NoDoc
    <3> QED
      BY <3>2, <3>3
  <2>2. docs'[n + 1].kind = "INVOICE"
    BY <1>1, <1>6, <2>1 DEF IsEnd
  <2> QED
    BY <1>1, <1>2, <2>2
<1>7. \A d \in 1 .. n + 1 : d \in 1 .. n \/ d = n + 1
  OBVIOUS
<1>8. ASSUME NEW d \in 1 .. n + 1, NEW e \in 1 .. n + 1, IsEnd(d)', IsEnd(e)', docs'[d].sale = docs'[e].sale
      PROVE  d = e
  <2>1. CASE d \in 1 .. n /\ e \in 1 .. n
    BY <1>1, <1>4, <1>5, <1>8, <2>1 DEF EndsApart
  <2>2. CASE d = n + 1 /\ e \in 1 .. n
    BY <1>2, <1>4, <1>6, <1>8, <2>2
  <2>3. CASE e = n + 1 /\ d \in 1 .. n
    BY <1>2, <1>4, <1>6, <1>8, <2>3
  <2> QED
    BY <1>7, <2>1, <2>2, <2>3
<1> QED
  BY <1>1, <1>8 DEF EndsApart

\* The end of the chain is replaced by another.
LEMMA EndMoves ==
  ASSUME Base, EndsApart, NEW k \in {1, 2}, NEW orig \in DOMAIN docs, IsEnd(orig),
         Grown(k, {orig}, Len(docs) + k),
         \A x \in Len(docs) + 1 .. Len(docs) + k :
            /\ docs'[x].by \notin 1 .. Len(docs) /\ docs'[x].sale = docs[orig].sale
            /\ docs'[x].by = NoDoc => x = Len(docs) + k
  PROVE  EndsApart'
<1>0. TypeOK
  BY DEF Base
<1>1. PICK n \in Nat : n = Len(docs) /\ DOMAIN docs = 1 .. n /\ DOMAIN docs' = 1 .. n + k
  BY DEF Grown
<1>2. \A d \in 1 .. n : docs'[d].sale = docs[d].sale
  BY <1>1 DEF Grown, Kept
<1>3. ASSUME NEW d \in 1 .. n, IsEnd(d)' PROVE IsEnd(d) /\ d # orig
  <2>1. PICK D : D = {orig}
    OBVIOUS
  <2>2. PICK by : by = n + k
    OBVIOUS
  <2>3. Grown(k, D, by) /\ k \in Nat /\ by \in Nat /\ by > n
    BY <1>1, <2>1, <2>2
  <2>4. IsEnd(d) /\ d \notin D
    BY <1>0, <1>1, <1>3, <2>3, EndsStay
  <2> QED
    BY <2>1, <2>4
<1>4. ASSUME NEW d \in n + 1 .. n + k, IsEnd(d)' PROVE d = n + k /\ docs'[d].sale = docs[orig].sale
  BY <1>1, <1>4 DEF IsEnd
<1>5. \A d \in 1 .. n : IsEnd(d)' => docs[d].sale # docs[orig].sale
  BY <1>1, <1>3 DEF EndsApart
<1>6. \A d \in 1 .. n + k : d \in 1 .. n \/ d \in n + 1 .. n + k
  OBVIOUS
<1>7. ASSUME NEW d \in 1 .. n + k, NEW e \in 1 .. n + k, IsEnd(d)', IsEnd(e)', docs'[d].sale = docs'[e].sale
      PROVE  d = e
  <2>1. CASE d \in 1 .. n /\ e \in 1 .. n
    BY <1>1, <1>2, <1>3, <1>7, <2>1 DEF EndsApart
  <2>2. CASE d \in n + 1 .. n + k /\ e \in 1 .. n
    BY <1>2, <1>4, <1>5, <1>7, <2>2
  <2>3. CASE e \in n + 1 .. n + k /\ d \in 1 .. n
    BY <1>2, <1>4, <1>5, <1>7, <2>3
  <2>4. CASE d \in n + 1 .. n + k /\ e \in n + 1 .. n + k
    BY <1>4, <1>7, <2>4
  <2> QED
    BY <1>6, <2>1, <2>2, <2>3, <2>4
<1> QED
  BY <1>1, <1>7 DEF EndsApart

\* Unless two requests crossed, a sale keeps to one chain.
LEMMA EndsStep ==
  ASSUME Base, EndsApart, [Next]_vars, "stale" \notin mishap'
  PROVE  EndsApart'
<1>0. TypeOK /\ RequestsOK /\ Unpaid
  BY DEF Base
<1>1. PICK n \in Nat : n = Len(docs) /\ DOMAIN docs = 1 .. n
  BY <1>0, Table
<1>2. ASSUME NEW r \in Requests, CommitInvoice(r) PROVE EndsApart'
  <2>1. PICK s \in Sales : pay[s] = "none" /\ \E st : Added(s, "INVOICE", NoDoc, st)
    BY <1>0, <1>2, InvoiceEffect
  <2>2. \A d \in DOMAIN docs : docs[d].sale # s
    BY <1>0, <2>1 DEF Unpaid
  <2> QED
    BY <2>1, <2>2, AddedApart
<1>3. CASE UNCHANGED docs
  BY <1>3 DEF EndsApart, IsEnd
<1>4. ASSUME NEW r \in Requests, applyReversal(r) PROVE EndsApart'
  BY <1>0, <1>3, <1>4, ReversalEffect, AddedApart
<1>5. ASSUME NEW r \in Requests, CreateCreditNoteForInvoice(r) PROVE EndsApart'
  <2>1. PICK orig : orig = req[r].read.doc
    OBVIOUS
  <2>2. PICK st : orig \in DOMAIN docs /\ docs[orig].kind = "INVOICE" /\ CreditedBy(orig, st)
    BY <1>0, <1>5, <2>1, CreditEffect
  <2>3. IsEnd(orig)
    BY <1>5, <2>1, <2>2, CreditsLive DEF IsEnd
  <2>4. Grown(1, {orig}, n + 1) /\ docs'[n + 1].by = NoDoc /\ docs'[n + 1].sale = docs[orig].sale
    BY <1>1, <2>2 DEF CreditedBy, New
  <2>5. \A x \in n + 1 .. n + 1 : x = n + 1
    OBVIOUS
  <2>6. \A x \in n + 1 .. n + 1 : docs'[x].by \notin 1 .. n /\ docs'[x].sale = docs[orig].sale
    BY <2>4, <2>5 DEF NoDoc
  <2> QED
    BY <1>1, <2>2, <2>3, <2>4, <2>5, <2>6, EndMoves
<1>6. ASSUME NEW r \in Requests, ReissueInvoice(r) PROVE EndsApart'
  <2>1. PICK orig : orig = req[r].read.doc
    OBVIOUS
  <2>6. PICK noted \in BOOLEAN : noted = req[r].read.acked
    BY <1>0, RequestIs
  <2>2. PICK st : orig \in DOMAIN docs /\ docs[orig].kind = "INVOICE" /\ Reissued(orig, st, noted)
    BY <1>0, <1>6, <2>1, <2>6, ReissueEffect
  <2>3. IsEnd(orig)
    BY <1>6, <2>1, <2>2, ReplacesLive DEF IsEnd
  <2>4. CASE ~noted
    <3>1. Grown(1, {orig}, n + 1) /\ docs'[n + 1].by = NoDoc /\ docs'[n + 1].sale = docs[orig].sale
      BY <1>1, <2>2, <2>4 DEF Reissued, New
    <3>2. \A x \in n + 1 .. n + 1 : x = n + 1
      OBVIOUS
    <3>3. \A x \in n + 1 .. n + 1 : docs'[x].by \notin 1 .. n /\ docs'[x].sale = docs[orig].sale
      BY <3>1, <3>2 DEF NoDoc
    <3> QED
      BY <1>1, <2>2, <2>3, <3>1, <3>2, <3>3, EndMoves
  <2>5. CASE noted
    <3>1. /\ Grown(2, {orig}, n + 2) /\ docs'[n + 2].by = NoDoc /\ docs'[n + 2].sale = docs[orig].sale
          /\ docs'[n + 1].by = n + 2 /\ docs'[n + 1].sale = docs[orig].sale
      BY <1>1, <2>2, <2>5 DEF Reissued, New
    <3>2. \A x \in n + 1 .. n + 2 : x = n + 1 \/ x = n + 2
      OBVIOUS
    <3>3. \A x \in n + 1 .. n + 2 :
             /\ docs'[x].by \notin 1 .. n /\ docs'[x].sale = docs[orig].sale
             /\ docs'[x].by = NoDoc => x = n + 2
      BY <3>1, <3>2 DEF NoDoc
    <3> QED
      BY <1>1, <2>2, <2>3, <3>1, <3>3, EndMoves
  <2> QED
    BY <2>4, <2>5
<1>7. CASE Filed
  <2>1. /\ DOMAIN docs' = DOMAIN docs
        /\ \A d \in DOMAIN docs : docs'[d].by = docs[d].by /\ docs'[d].kind = docs[d].kind /\ docs'[d].sale = docs[d].sale
    BY <1>7 DEF Filed
  <2> QED
    BY <2>1 DEF EndsApart, IsEnd
<1>8. ASSUME NEW r \in Requests, ActivateTaxPending(r) PROVE Filed
  BY <1>0, <1>8, ActivateIs
<1> QED
  BY <1>2, <1>3, <1>4, <1>5, <1>6, <1>7, <1>8, StepKinds, FilesIs DEF Commits

\* What is known of the chains of a sale.
Chains == Base /\ Chained /\ (Free({"stale"}) => EndsApart)

\* It holds throughout.
LEMMA ChainsHold == Spec => []Chains
<1>1. Init => Chains
  <2> SUFFICES ASSUME Init PROVE Chains
    OBVIOUS
  <2>1. DOMAIN docs = {}
    BY DEF Init
  <2> QED
    BY <2>1, InitBase DEF Chains, Chained, EndsApart
<1>2. Chains /\ [Next]_vars => Chains'
  <2> SUFFICES ASSUME Chains, [Next]_vars PROVE Chains'
    OBVIOUS
  <2>1. Base /\ Chained
    BY DEF Chains
  <2>2. Base' /\ Chained'
    BY <2>1, NextBase, ChainStep
  <2>3. ASSUME Free({"stale"})' PROVE EndsApart'
    <3>1. "stale" \notin mishap'
      BY <2>3 DEF Free
    <3>2. Free({"stale"})
      BY <2>1, <3>1, MishapsStay DEF Free
    <3>3. EndsApart
      BY <3>2 DEF Chains
    <3> QED
      BY <2>1, <3>1, <3>3, EndsStep
  <2> QED
    BY <2>2, <2>3 DEF Chains
<1> QED
  BY <1>1, <1>2, PTL DEF Spec

\* A set of rows that are all the same has one at most.
LEMMA OneAtMost ==
  ASSUME TypeOK, NEW S \in SUBSET DOMAIN docs, \A d, e \in S : d = e
  PROVE  Cardinality(S) =< 1
<1>1. CASE S = {}
  BY <1>1, FS_EmptySet
<1>2. CASE S # {}
  <2>1. PICK d \in S : TRUE
    BY <1>2
  <2>2. S = {d}
    BY <2>1
  <2>3. Cardinality({d}) = 1
    BY FS_Singleton
  <2> QED
    BY <2>2, <2>3
<1> QED
  BY <1>1, <1>2

\* A sale has one invoice that nothing supersedes, however often the merchant
\* reissues it and buyers claim it, unless two of the requests crossed.
THEOREM OneLiveHolds == Spec => []OneLive
<1>1. Chains => OneLive
  <2> SUFFICES ASSUME Chains, Free({"stale"}), NEW s \in Sales
               PROVE  Cardinality({d \in OfSale(s, "INVOICE") : docs[d].by = NoDoc}) =< 1
    BY DEF OneLive
  <2> DEFINE S == {d \in OfSale(s, "INVOICE") : docs[d].by = NoDoc}
  <2>1. TypeOK /\ EndsApart
    BY DEF Chains, Base
  <2>2. S \in SUBSET DOMAIN docs /\ \A d, e \in S : d = e
    BY <2>1 DEF OfSale, EndsApart, IsEnd
  <2> HIDE DEF S
  <2>3. Cardinality(S) =< 1
    BY <2>1, <2>2, OneAtMost
  <2> QED
    BY <2>3 DEF S
<1> QED
  BY <1>1, ChainsHold, PTL

-----------------------------------------------------------------------------
(* What a credit note cites.                                               *)

\* A credit note that comes is for an acknowledged invoice, and rests until it
\* is filed.
CreditsWell(c) ==
    docs'[c].kind = "CREDIT_NOTE" =>
        /\ docs'[c].parent \in DOMAIN docs /\ IsAcked(docs'[c].parent)
        /\ docs'[c].state \in {"TAX_PENDING", "QUEUED"}

\* Rows that are added leave the credit notes as they are.
LEMMA CreditsGrow ==
  ASSUME TypeOK, Credits, NEW k \in Nat, NEW D, NEW by, Grown(k, D, by),
         \A c \in Len(docs) + 1 .. Len(docs) + k : CreditsWell(c)
  PROVE  Credits'
<1>1. PICK n \in Nat : n = Len(docs) /\ DOMAIN docs = 1 .. n /\ DOMAIN docs' = 1 .. n + k
  BY DEF Grown
<1>2. ASSUME NEW p \in 1 .. n, IsAcked(p) PROVE p # NoDoc /\ IsAcked(p)'
  BY <1>1, <1>2 DEF IsAcked, Grown, Kept, NoDoc
<1>3. ASSUME NEW c \in 1 .. n + k, docs'[c].kind = "CREDIT_NOTE"
      PROVE  /\ docs'[c].parent # NoDoc /\ IsAcked(docs[c].parent)'
             /\ docs'[c].state \in {"SUBMITTED", "ACKED"} => docs'[c].cites = docs'[c].parent
  <2>1. CASE c \in 1 .. n
    <3>1. /\ docs[c].kind = docs'[c].kind /\ docs[c].parent = docs'[c].parent
          /\ docs[c].state = docs'[c].state /\ docs[c].cites = docs'[c].cites
      BY <1>1, <2>1 DEF Grown, Kept
    <3>2. /\ docs[c].parent # NoDoc /\ IsAcked(docs[c].parent)
          /\ docs[c].state \in {"SUBMITTED", "ACKED"} => docs[c].cites = docs[c].parent
      BY <1>1, <1>3, <2>1, <3>1 DEF Credits
    <3>3. PICK p \in 1 .. n : p = docs[c].parent
      <4>1. docs[c].parent \in Nat /\ docs[c].parent < c
        BY <1>1, <2>1, Table DEF TypeOK, Doc
      <4> QED
        BY <2>1, <3>2, <4>1 DEF NoDoc
    <3>4. IsAcked(p)'
      BY <1>2, <3>2, <3>3
    <3>5. IsAcked(docs[c].parent)'
      BY <3>1, <3>3, <3>4 DEF IsAcked
    <3> QED
      BY <3>1, <3>2, <3>5
  <2>2. CASE c \in n + 1 .. n + k
    <3>1. CreditsWell(c)
      BY <1>1, <2>2
    <3>2. PICK p \in 1 .. n : p = docs'[c].parent /\ IsAcked(p)
      BY <1>1, <1>3, <3>1 DEF CreditsWell
    <3>3. p # NoDoc /\ IsAcked(p)'
      BY <1>2, <3>2
    <3>4. IsAcked(docs[c].parent)'
      BY <3>2, <3>3 DEF IsAcked
    <3> QED
      BY <1>3, <3>1, <3>2, <3>3, <3>4 DEF CreditsWell
  <2> QED
    BY <2>1, <2>2
<1> QED
  BY <1>1, <1>3 DEF Credits

\* Filing keeps them: an acknowledged parent stays one, and its number is what
\* a credit note takes along.
LEMMA CreditsFiled ==
  ASSUME TypeOK, Credits, Filed,
         \A x \in DOMAIN docs : docs[x].state = "ACKED" => docs'[x].state = "ACKED",
         \A x \in DOMAIN docs : docs'[x].state \in {"SUBMITTED", "ACKED"} =>
            \/ docs[x].state \in {"SUBMITTED", "ACKED"} /\ docs'[x].cites = docs[x].cites
            \/ docs'[x].cites = ParentKRANo(x)
  PROVE  Credits'
<1>1. PICK n \in Nat : n = Len(docs) /\ DOMAIN docs = 1 .. n /\ DOMAIN docs' = 1 .. n
  BY Table DEF Filed
<1>2. ASSUME NEW c \in 1 .. n, docs'[c].kind = "CREDIT_NOTE"
      PROVE  /\ docs'[c].parent # NoDoc /\ IsAcked(docs[c].parent)'
             /\ docs'[c].state \in {"SUBMITTED", "ACKED"} => docs'[c].cites = docs'[c].parent
  <2>1. docs[c].kind = "CREDIT_NOTE" /\ docs[c].parent = docs'[c].parent
    BY <1>1, <1>2 DEF Filed
  <2>2. /\ docs[c].parent # NoDoc /\ IsAcked(docs[c].parent)
        /\ docs[c].state \in {"SUBMITTED", "ACKED"} => docs[c].cites = docs[c].parent
    BY <1>1, <2>1 DEF Credits
  <2>3. PICK p \in 1 .. n : p = docs[c].parent
    <3>1. docs[c].parent \in Nat /\ docs[c].parent < c
      BY <1>1, Table DEF TypeOK, Doc
    <3> QED
      BY <2>2, <3>1 DEF NoDoc
  <2>4. docs'[p].kind = "INVOICE" /\ docs'[p].state = "ACKED"
    BY <1>1, <2>2, <2>3 DEF IsAcked, Filed
  <2>5. IsAcked(docs[c].parent)'
    BY <2>1, <2>3, <2>4 DEF IsAcked
  <2>6. ParentKRANo(c) = docs[c].parent
    BY <2>1, <2>2 DEF ParentKRANo, IsAcked
  <2> QED
    BY <1>1, <2>1, <2>2, <2>5, <2>6
<1> QED
  BY <1>1, <1>2 DEF Credits

\* A step of filing, with what it cites.
LEMMA FilesCites ==
  ASSUME TypeOK, NEW d \in DOMAIN docs, Files(d)
  PROVE  /\ Filed
         /\ \A x \in DOMAIN docs : docs[x].state = "ACKED" => docs'[x].state = "ACKED"
         /\ \A x \in DOMAIN docs : docs'[x].state \in {"SUBMITTED", "ACKED"} =>
               \/ docs[x].state \in {"SUBMITTED", "ACKED"} /\ docs'[x].cites = docs[x].cites
               \/ docs'[x].cites = ParentKRANo(x)
<1>1. CASE Submit(d)
  <2>1. docs[d].state = "QUEUED"
    BY <1>1 DEF Submit
  <2> QED
    BY <1>1, <2>1, SubmitIs
<1>2. CASE AckInvoice(d)
  <2>1. docs[d].state = "SUBMITTED" /\ Moves(d, "ACKED")
    BY <1>2 DEF AckInvoice
  <2> QED
    BY <2>1, MovesIs DEF States
<1>3. CASE RetryLater(d) \/ Park(d) \/ retryInvoice(d)
  <2>1. PICK st \in {"QUEUED", "NEEDS_REVIEW"} : docs[d].state # "ACKED" /\ Moves(d, st)
    BY <1>3 DEF RetryLater, Park, retryInvoice
  <2> QED
    BY <2>1, MovesIs DEF States
<1> QED
  BY <1>1, <1>2, <1>3 DEF Files

\* Unless one comes early, every credit note is for an acknowledged invoice.
LEMMA CreditsStep ==
  ASSUME Base, Credits, [Next]_vars, "early" \notin mishap'
  PROVE  Credits'
<1>0. TypeOK /\ RequestsOK
  BY DEF Base
<1>1. PICK n \in Nat : n = Len(docs) /\ DOMAIN docs = 1 .. n
  BY <1>0, Table
<1>2. CASE UNCHANGED docs
  BY <1>2 DEF Credits, IsAcked
<1>3. ASSUME NEW r \in Requests, CommitInvoice(r) PROVE Credits'
  <2>1. Grown(1, {}, NoDoc) /\ docs'[n + 1].kind = "INVOICE"
    BY <1>0, <1>1, <1>3, InvoiceEffect DEF Added, New
  <2>2. \A c \in n + 1 .. n + 1 : CreditsWell(c)
    <3>1. \A c \in n + 1 .. n + 1 : c = n + 1
      OBVIOUS
    <3> QED
      BY <2>1, <3>1 DEF CreditsWell
  <2> QED
    BY <1>0, <1>1, <2>1, <2>2, CreditsGrow
<1>4. ASSUME NEW r \in Requests, applyReversal(r) PROVE Credits'
  <2>1. PICK d : d = req[r].read.doc
    OBVIOUS
  <2>2. CASE d = NoDoc
    BY <1>0, <1>2, <1>4, <2>1, <2>2, ReversalEffect, Table DEF applyReversal
  <2>3. CASE d # NoDoc
    <3>1. d \in DOMAIN docs /\ IsAcked(d) /\ \E s : Added(s, "CREDIT_NOTE", d, "QUEUED")
      BY <1>0, <1>4, <2>1, <2>3, ReversalEffect
    <3>2. Grown(1, {}, NoDoc) /\ docs'[n + 1].parent = d /\ docs'[n + 1].state = "QUEUED"
      BY <1>1, <3>1 DEF Added, New
    <3>3. \A c \in n + 1 .. n + 1 : CreditsWell(c)
      <4>1. \A c \in n + 1 .. n + 1 : c = n + 1
        OBVIOUS
      <4> QED
        BY <3>1, <3>2, <4>1 DEF CreditsWell
    <3> QED
      BY <1>0, <1>1, <3>2, <3>3, CreditsGrow
  <2> QED
    BY <2>2, <2>3
<1>5. ASSUME NEW r \in Requests, CreateCreditNoteForInvoice(r) PROVE Credits'
  <2>1. PICK orig : orig = req[r].read.doc
    OBVIOUS
  <2>2. PICK st \in {"TAX_PENDING", "QUEUED"} : st = FirstState(req[r].read.ready)
    BY <1>0, RequestIs, FirstStateIs
  <2>3. req[r].read.acked
    <3>1. Noted(r, Early(req[r].read.acked))
      BY <1>5 DEF CreateCreditNoteForInvoice
    <3> QED
      BY <3>1 DEF Noted, Early
  <2>4. orig \in DOMAIN docs /\ IsAcked(orig) /\ CreditedBy(orig, st)
    BY <1>0, <1>5, <2>1, <2>2, <2>3, CreditEffect DEF IsAcked
  <2>5. Grown(1, {orig}, n + 1) /\ docs'[n + 1].parent = orig /\ docs'[n + 1].state = st
    BY <1>1, <2>4 DEF CreditedBy, New
  <2>6. \A c \in n + 1 .. n + 1 : CreditsWell(c)
    <3>1. \A c \in n + 1 .. n + 1 : c = n + 1
      OBVIOUS
    <3> QED
      BY <2>4, <2>5, <3>1 DEF CreditsWell
  <2> QED
    BY <1>0, <1>1, <2>5, <2>6, CreditsGrow
<1>6. ASSUME NEW r \in Requests, ReissueInvoice(r) PROVE Credits'
  <2>1. PICK orig : orig = req[r].read.doc
    OBVIOUS
  <2>2. PICK st \in {"TAX_PENDING", "QUEUED"} : st = FirstState(req[r].read.ready)
    BY <1>0, RequestIs, FirstStateIs
  <2>3. req[r].read.acked
    <3>1. \E kinds : Noted(r, Early(req[r].read.acked) \cup kinds)
      BY <1>6 DEF ReissueInvoice
    <3> QED
      BY <3>1 DEF Noted, Early
  <2>4. orig \in DOMAIN docs /\ IsAcked(orig) /\ Reissued(orig, st, TRUE)
    BY <1>0, <1>6, <2>1, <2>2, <2>3, ReissueEffect, RequestIs DEF IsAcked
  <2>5. /\ Grown(2, {orig}, n + 2) /\ docs'[n + 1].parent = orig /\ docs'[n + 1].state = st
        /\ docs'[n + 2].kind = "INVOICE"
    BY <1>1, <2>4 DEF Reissued, New
  <2>6. \A c \in n + 1 .. n + 2 : CreditsWell(c)
    <3>1. \A c \in n + 1 .. n + 2 : c = n + 1 \/ c = n + 2
      OBVIOUS
    <3>2. CreditsWell(n + 1) /\ CreditsWell(n + 2)
      BY <2>4, <2>5 DEF CreditsWell
    <3> QED
      BY <3>1, <3>2
  <2> QED
    BY <1>0, <1>1, <2>5, <2>6, CreditsGrow
<1>7. ASSUME NEW r \in Requests, ActivateTaxPending(r) PROVE Credits'
  <2>1. /\ Filed
        /\ \A x \in DOMAIN docs : /\ docs'[x].cites = docs[x].cites
                                  /\ docs'[x].state = IF docs[x].state = "TAX_PENDING" THEN "QUEUED" ELSE docs[x].state
    BY <1>0, <1>7, ActivateIs
  <2> QED
    BY <1>0, <2>1, CreditsFiled
<1>8. ASSUME NEW d \in DOMAIN docs, Files(d) PROVE Credits'
  BY <1>0, <1>8, FilesCites, CreditsFiled
<1> QED
  BY <1>2, <1>3, <1>4, <1>5, <1>6, <1>7, <1>8, StepKinds DEF Commits

\* A credit note KRA has acknowledged cites the invoice it is for, unless the
\* merchant made it before that invoice was acknowledged.
THEOREM CreditCitesHolds == Spec => []CreditCites
<1> DEFINE Inv == Base /\ (Free({"early"}) => Credits)
<1>1. Init => Inv
  <2> SUFFICES ASSUME Init PROVE Inv
    OBVIOUS
  <2>1. DOMAIN docs = {}
    BY DEF Init
  <2> QED
    BY <2>1, InitBase DEF Credits
<1>2. Inv /\ [Next]_vars => Inv'
  <2> SUFFICES ASSUME Inv, [Next]_vars PROVE Inv'
    OBVIOUS
  <2>1. Base'
    BY NextBase
  <2>2. ASSUME Free({"early"})' PROVE Credits'
    <3>1. "early" \notin mishap'
      BY <2>2 DEF Free
    <3>2. Free({"early"})
      BY <3>1, MishapsStay DEF Free
    <3> QED
      BY <3>1, <3>2, CreditsStep
  <2> QED
    BY <2>1, <2>2
<1>3. Inv => CreditCites
  <2> SUFFICES ASSUME Inv, Free({"early", "stale"}), NEW d \in DOMAIN docs,
                      docs[d].kind = "CREDIT_NOTE", docs[d].state = "ACKED"
               PROVE  docs[d].cites = docs[d].parent
    BY DEF CreditCites
  <2>1. Free({"early"})
    BY DEF Free
  <2> QED
    BY <2>1 DEF Credits
<1> HIDE DEF Inv
<1> QED
  BY <1>1, <1>2, <1>3, PTL DEF Spec

-----------------------------------------------------------------------------
(* Nothing is held back once the organisation is configured.               *)

\* No activation is under way.
Settled == \A r \in Requests : req[r].pc # "activate"

\* One request acts that was not to activate.
LEMMA SettledBefore ==
  ASSUME TypeOK, Settled', NEW r \in Requests, req[r].pc # "activate", NEW q, Becomes(r, q)
  PROVE  Settled
BY DEF Settled, Becomes, TypeOK

\* Unless it was this step that let the documents go, the organisation was
\* initialized before, and no activation was under way.
LEMMA ReadyBefore ==
  ASSUME Base, [Next]_vars, Ready', Free({"stale", "cut"})', Settled',
         \A r \in Requests : ~ActivateTaxPending(r)
  PROVE  Ready /\ Free({"stale", "cut"}) /\ Settled
<1>0. TypeOK /\ RequestsOK
  BY DEF Base
<1>1. Free({"stale", "cut"})
  BY MishapsStay DEF Free
<1>2. Idle.pc = "idle"
  BY DEF Idle
<1>3. ASSUME NEW r \in Requests, SetEtimsConfigured(r) PROVE FALSE
  <2>1. PICK q : q = [req[r] EXCEPT !.pc = "activate"]
    OBVIOUS
  <2>2. q.pc = "activate"
    BY <1>0, <2>1, RequestIs DEF Request
  <2>3. req'[r] = q
    BY <1>0, <1>3, <2>1 DEF SetEtimsConfigured, Becomes, TypeOK
  <2> QED
    BY <2>2, <2>3 DEF Settled
<1>4. ASSUME NEW r \in Requests, SetEtimsFailed(r) PROVE FALSE
  BY <1>4 DEF SetEtimsFailed, Ready
<1>5. ASSUME NEW r \in Requests,
             \/ \E s \in Sales : CreateInvoiceForSale(r, s) \/ reversalArrives(r, s)
             \/ \E d \in DOMAIN docs : reissueInvoice(r, d) \/ ClaimReceiptByCode(r, d) \/ createCreditNote(r, d)
             \/ ConfigureEtims(r)
      PROVE  Ready /\ Settled
  <2>1. req[r].pc # "activate" /\ \E q : Becomes(r, q)
    BY <1>2, <1>5 DEF CreateInvoiceForSale, reversalArrives, reissueInvoice, ClaimReceiptByCode, createCreditNote,
                      ConfigureEtims, Asks, StartReissue
  <2>2. Ready
    BY <1>5 DEF Ready, CreateInvoiceForSale, reversalArrives, reissueInvoice, ClaimReceiptByCode, createCreditNote,
                ConfigureEtims
  <2> QED
    BY <1>0, <2>1, <2>2, SettledBefore
<1>6. ASSUME NEW r \in Requests, Commits(r) \/ ClaimReissues(r) PROVE Ready /\ Settled
  <2>1. req[r].pc # "activate" /\ \E q : Becomes(r, q)
    BY <1>6 DEF Commits, CommitInvoice, ReissueInvoice, CreateCreditNoteForInvoice, applyReversal, ClaimReissues,
                StartReissue
  <2>2. Ready
    BY <1>6 DEF Ready, Commits, CommitInvoice, ReissueInvoice, CreateCreditNoteForInvoice, applyReversal, ClaimReissues
  <2> QED
    BY <1>0, <2>1, <2>2, SettledBefore
<1>7. ASSUME NEW r \in Requests, Ends(r) PROVE Ready /\ Settled
  <2>1. req[r].pc # "activate"
    BY <1>7 DEF Ends, Free
  <2>2. Ready /\ \E q : Becomes(r, q)
    BY <1>7 DEF Ends, Ready
  <2> QED
    BY <1>0, <2>1, <2>2, SettledBefore
<1>8. ASSUME NEW d \in DOMAIN docs, Files(d) PROVE Ready /\ Settled
  BY <1>8 DEF Files, Submit, AckInvoice, RetryLater, Park, retryInvoice, Ready, Settled
<1>9. CASE UNCHANGED vars
  BY <1>1, <1>9 DEF vars, Ready, Settled
<1>10. Ready /\ Settled
  BY <1>3, <1>4, <1>5, <1>6, <1>7, <1>8, <1>9 DEF Next, Commits, Files
<1> QED
  BY <1>1, <1>10

\* A commit that is not stale has read that eTIMS is configured, if it is, and
\* queues what it makes.
LEMMA QueuedWhenReady ==
  ASSUME Base, NEW r \in Requests, CommitInvoice(r) \/ ReissueInvoice(r) \/ CreateCreditNoteForInvoice(r),
         Ready, "stale" \notin mishap'
  PROVE  FirstState(req[r].read.ready) = "QUEUED"
<1>1. \E kinds : Noted(r, kinds)
  BY DEF CommitInvoice, ReissueInvoice, CreateCreditNoteForInvoice
<1>2. req[r].read = ReadAgain(r)
  BY <1>1 DEF Noted
<1>3. CASE CommitInvoice(r)
  <2>1. ReadAgain(r) = ReadForInvoice(req[r].sale)
    BY <1>3 DEF CommitInvoice, ReadAgain
  <2> QED
    BY <1>2, <2>1 DEF ReadForInvoice, FirstState
<1>4. CASE ReissueInvoice(r)
  <2>1. ReadAgain(r) = ReadForReissue(req[r].arg)
    BY <1>4 DEF ReissueInvoice, ReadAgain
  <2> QED
    BY <1>2, <2>1 DEF ReadForReissue, FirstState
<1>5. CASE CreateCreditNoteForInvoice(r)
  <2>1. ReadAgain(r) = ReadForCredit(req[r].arg)
    BY <1>5 DEF CreateCreditNoteForInvoice, ReadAgain
  <2> QED
    BY <1>2, <2>1 DEF ReadForCredit, FirstState
<1> QED
  BY <1>3, <1>4, <1>5

\* Rows that are added are not held back.
LEMMA NoneHeldGrows ==
  ASSUME TypeOK, \A d \in DOMAIN docs : docs[d].state # "TAX_PENDING",
         NEW k \in Nat, NEW D, NEW by, Grown(k, D, by),
         \A d \in Len(docs) + 1 .. Len(docs) + k : docs'[d].state = "QUEUED"
  PROVE  \A d \in DOMAIN docs' : docs'[d].state # "TAX_PENDING"
<1>1. PICK n \in Nat : n = Len(docs) /\ DOMAIN docs = 1 .. n /\ DOMAIN docs' = 1 .. n + k
  BY DEF Grown
<1>2. \A d \in 1 .. n + k : d \in 1 .. n \/ d \in n + 1 .. n + k
  OBVIOUS
<1>3. \A d \in 1 .. n : docs'[d].state = docs[d].state
  BY <1>1 DEF Grown, Kept
<1> QED
  BY <1>1, <1>2, <1>3

\* The step.
LEMMA HeldStep ==
  ASSUME Base, HeldUntilConfigured, [Next]_vars
  PROVE  HeldUntilConfigured'
<1> SUFFICES ASSUME Ready', Free({"stale", "cut"})', Settled'
             PROVE  \A d \in DOMAIN docs' : docs'[d].state # "TAX_PENDING"
  BY DEF HeldUntilConfigured, Settled
<1>0. TypeOK /\ RequestsOK
  BY DEF Base
<1>1. PICK n \in Nat : n = Len(docs) /\ DOMAIN docs = 1 .. n
  BY <1>0, Table
<1>2. ASSUME NEW r \in Requests, ActivateTaxPending(r)
      PROVE  \A d \in DOMAIN docs' : docs'[d].state # "TAX_PENDING"
  BY <1>0, <1>2, ActivateIs DEF Filed
<1>3. CASE \A r \in Requests : ~ActivateTaxPending(r)
  <2>1. Ready /\ Free({"stale", "cut"}) /\ Settled
    BY <1>3, ReadyBefore
  <2>2. \A d \in DOMAIN docs : docs[d].state # "TAX_PENDING"
    BY <2>1 DEF HeldUntilConfigured, Settled
  <2>3. "stale" \notin mishap'
    BY DEF Free
  <2>4. ASSUME NEW r \in Requests, CommitInvoice(r)
        PROVE  \A d \in DOMAIN docs' : docs'[d].state # "TAX_PENDING"
    <3>1. Grown(1, {}, NoDoc) /\ docs'[n + 1].state = "QUEUED"
      BY <1>0, <1>1, <2>1, <2>3, <2>4, InvoiceEffect, QueuedWhenReady DEF Added, New
    <3>2. \A d \in n + 1 .. n + 1 : d = n + 1
      OBVIOUS
    <3> QED
      BY <1>0, <1>1, <2>2, <3>1, <3>2, NoneHeldGrows
  <2>5. ASSUME NEW r \in Requests, applyReversal(r)
        PROVE  \A d \in DOMAIN docs' : docs'[d].state # "TAX_PENDING"
    <3>1. CASE UNCHANGED docs
      BY <2>2, <3>1
    <3>2. ASSUME NEW s, NEW d, Added(s, "CREDIT_NOTE", d, "QUEUED")
          PROVE  \A x \in DOMAIN docs' : docs'[x].state # "TAX_PENDING"
      <4>1. Grown(1, {}, NoDoc) /\ docs'[n + 1].state = "QUEUED"
        BY <1>1, <3>2 DEF Added, New
      <4>2. \A x \in n + 1 .. n + 1 : x = n + 1
        OBVIOUS
      <4> QED
        BY <1>0, <1>1, <2>2, <4>1, <4>2, NoneHeldGrows
    <3> QED
      BY <1>0, <2>5, <3>1, <3>2, ReversalEffect
  <2>6. ASSUME NEW r \in Requests, CreateCreditNoteForInvoice(r)
        PROVE  \A d \in DOMAIN docs' : docs'[d].state # "TAX_PENDING"
    <3>0. PICK orig : orig = req[r].read.doc
      OBVIOUS
    <3>1. Grown(1, {orig}, n + 1) /\ docs'[n + 1].state = "QUEUED"
      <4>1. FirstState(req[r].read.ready) = "QUEUED"
        BY <1>0, <1>1, <2>1, <2>3, <2>6, QueuedWhenReady
      <4>2. CreditedBy(orig, FirstState(req[r].read.ready))
        BY <1>0, <2>6, <3>0, CreditEffect
      <4> QED
        BY <1>1, <4>1, <4>2 DEF CreditedBy, New
    <3>2. \A d \in n + 1 .. n + 1 : d = n + 1
      OBVIOUS
    <3> QED
      BY <1>0, <1>1, <2>2, <3>1, <3>2, NoneHeldGrows
  <2>7. ASSUME NEW r \in Requests, ReissueInvoice(r)
        PROVE  \A d \in DOMAIN docs' : docs'[d].state # "TAX_PENDING"
    <3>0. PICK orig : orig = req[r].read.doc
      OBVIOUS
    <3>3. PICK noted \in BOOLEAN : noted = req[r].read.acked
      BY <1>0, RequestIs
    <3>4. Reissued(orig, "QUEUED", noted)
      BY <1>0, <2>1, <2>3, <2>7, <3>0, <3>3, ReissueEffect, QueuedWhenReady
    <3>5. CASE ~noted
      <4>1. Grown(1, {orig}, n + 1) /\ docs'[n + 1].state = "QUEUED"
        BY <1>1, <3>4, <3>5 DEF Reissued, New
      <4>2. \A d \in n + 1 .. n + 1 : d = n + 1
        OBVIOUS
      <4> QED
        BY <1>0, <1>1, <2>2, <4>1, <4>2, NoneHeldGrows
    <3>6. CASE noted
      <4>1. Grown(2, {orig}, n + 2) /\ docs'[n + 1].state = "QUEUED" /\ docs'[n + 2].state = "QUEUED"
        BY <1>1, <3>4, <3>6 DEF Reissued, New
      <4>2. \A d \in n + 1 .. n + 2 : d = n + 1 \/ d = n + 2
        OBVIOUS
      <4> QED
        BY <1>0, <1>1, <2>2, <4>1, <4>2, NoneHeldGrows
    <3> QED
      BY <3>5, <3>6
  <2>8. ASSUME NEW d \in DOMAIN docs, Files(d)
        PROVE  \A x \in DOMAIN docs' : docs'[x].state # "TAX_PENDING"
    <3>1. CASE Submit(d)
      BY <1>0, <2>2, <3>1, SubmitIs DEF Filed
    <3>2. CASE ~Submit(d)
      <4>1. PICK st \in States : st # "TAX_PENDING" /\ Moves(d, st)
        BY <2>8, <3>2 DEF Files, AckInvoice, RetryLater, Park, retryInvoice, States
      <4> QED
        BY <1>0, <2>2, <4>1, MovesIs DEF Filed
    <3> QED
      BY <3>1, <3>2
  <2>9. CASE UNCHANGED docs
    BY <2>2, <2>9
  <2> QED
    BY <1>3, <2>4, <2>5, <2>6, <2>7, <2>8, <2>9, StepKinds DEF Commits
<1> QED
  BY <1>2, <1>3

\* Once eTIMS is configured and its activation has run, no document is held
\* back, unless a request committed on a stale read or the activation was cut.
THEOREM HeldUntilConfiguredHolds == Spec => []HeldUntilConfigured
<1>1. Init => HeldUntilConfigured
  BY DEF Init, HeldUntilConfigured
<1>2. Base /\ HeldUntilConfigured /\ [Next]_vars => HeldUntilConfigured'
  BY HeldStep
<1> QED
  BY <1>1, <1>2, BaseHolds, PTL DEF Spec

-----------------------------------------------------------------------------
(* The chains of a sale meet in one document.                              *)

\* From any invoice of a sale the loop of ReissueInvoice comes to the end of its
\* chain: on its way it sees invoices of the sale, and last perhaps the credit
\* note that superseded one.
LEMMA ActiveIsEnd ==
  ASSUME Base, Chained, NEW s, NEW d \in OfSale(s, "INVOICE")
  PROVE  LET e == ActiveInvoice(docs, d) IN e \in DOMAIN docs /\ IsEnd(e) /\ docs[e].sale = s
<1>0. TypeOK
  BY DEF Base
<1>1. PICK m \in Nat : m = Len(docs) /\ DOMAIN docs = 1 .. m
  BY <1>0, Table
<1>2. PICK f : /\ f[0] = d
               /\ \A k \in 0 .. m - 1 : f[k + 1] = Hop(docs, f[k])
               /\ Follow(docs, d, m) = f[m]
  BY FollowWalks
<1> DEFINE Kin(x) == /\ x \in 1 .. m /\ docs[x].sale = s
                     /\ docs[x].kind = "INVOICE" \/ (docs[x].by = NoDoc /\ \E y \in DOMAIN docs : docs[y].by = x)
           P == {k \in Nat : k =< m => Kin(f[k])}
<1>3. 0 \in P
  <2>1. Kin(f[0])
    BY <1>1, <1>2 DEF OfSale
  <2> HIDE DEF Kin
  <2> QED
    BY <2>1
<1>4. ASSUME NEW k \in Nat, k \in P PROVE k + 1 \in P
  <2> SUFFICES ASSUME k + 1 =< m PROVE Kin(f[k + 1])
    OBVIOUS
  <2>1. k \in 0 .. m - 1 /\ k =< m
    OBVIOUS
  <2>2. f[k + 1] = Hop(docs, f[k])
    BY <1>2, <2>1
  <2>3. PICK x \in 1 .. m : x = f[k] /\ Kin(x)
    BY <1>4, <2>1
  <2>4. CASE docs[x].by = NoDoc
    <3>1. f[k + 1] = x
      BY <2>2, <2>3, <2>4 DEF Hop
    <3> HIDE DEF Kin
    <3> QED
      BY <2>3, <3>1
  <2>5. CASE docs[x].by # NoDoc
    <3>1. docs[x].by \in (x + 1) .. m
      BY <1>0, <1>1, <2>5 DEF TypeOK
    <3>2. PICK y \in 1 .. m : y = docs[x].by
      BY <3>1
    <3>3. f[k + 1] = y
      BY <2>2, <2>3, <2>5, <3>2 DEF Hop
    <3>4. docs[y].sale = docs[x].sale /\ (docs[y].kind = "CREDIT_NOTE" => docs[y].by = NoDoc)
      BY <1>1, <2>5, <3>2 DEF Chained
    <3>5. docs[y].kind \in {"INVOICE", "CREDIT_NOTE"}
      BY <1>0, <1>1, Table DEF Doc
    <3>6. Kin(y)
      BY <1>1, <2>3, <3>2, <3>4, <3>5
    <3> HIDE DEF Kin
    <3> QED
      BY <3>3, <3>6
  <2> QED
    BY <2>4, <2>5
<1> HIDE DEF Kin
<1>5. P = Nat
  <2>1. P \in SUBSET Nat
    OBVIOUS
  <2> HIDE DEF P
  <2> QED
    BY <1>3, <1>4, <2>1, AllNumbers
<1>6. Kin(f[m])
  BY <1>5
<1>7. ActiveInvoice(docs, d) = f[m]
  BY <1>1, <1>2 DEF ActiveInvoice
<1>8. docs[f[m]].by = NoDoc
  <2>1. d \in DOMAIN docs
    BY DEF OfSale
  <2> QED
    BY <1>0, <1>7, <2>1, LookupsEnd
<1> QED
  BY <1>1, <1>6, <1>7, <1>8 DEF IsEnd, Kin

\* Whichever of its invoices a reissue of a sale is asked for, it amends the
\* same document, which nothing supersedes, after any sequence of requests of
\* which no two crossed.
THEOREM OneActiveHolds == Spec => []OneActive
<1>1. Chains => OneActive
  <2> SUFFICES ASSUME Chains, Free({"stale"}), NEW s \in Sales,
                      NEW d \in OfSale(s, "INVOICE"), NEW e \in OfSale(s, "INVOICE")
               PROVE  /\ ActiveInvoice(docs, d) = ActiveInvoice(docs, e)
                      /\ docs[ActiveInvoice(docs, d)].by = NoDoc
    BY DEF OneActive
  <2>1. Base /\ Chained /\ EndsApart
    BY DEF Chains
  <2>2. PICK x : x = ActiveInvoice(docs, d)
    OBVIOUS
  <2>3. PICK y : y = ActiveInvoice(docs, e)
    OBVIOUS
  <2>4. x \in DOMAIN docs /\ IsEnd(x) /\ docs[x].sale = s
    BY <2>1, <2>2, ActiveIsEnd
  <2>5. y \in DOMAIN docs /\ IsEnd(y) /\ docs[y].sale = s
    BY <2>1, <2>3, ActiveIsEnd
  <2>6. x = y
    BY <2>1, <2>4, <2>5 DEF EndsApart
  <2> QED
    BY <2>2, <2>3, <2>4, <2>6 DEF IsEnd
<1> QED
  BY <1>1, ChainsHold, PTL

-----------------------------------------------------------------------------
(* What the documents of a sale add up to.                                 *)

\* Sums over rows of the table.
LEMMA RowsFinite ==
  ASSUME TypeOK, NEW D \in SUBSET DOMAIN docs
  PROVE  IsFiniteSet(D) /\ \A d \in D : docs[d].total \in Int
<1>1. Len(docs) \in Nat /\ DOMAIN docs = 1 .. Len(docs) /\ \A d \in DOMAIN docs : docs[d].total \in {1, -1}
  BY Table DEF Doc
<1>2. IsFiniteSet(1 .. Len(docs))
  BY <1>1, FS_Interval
<1> QED
  BY <1>1, <1>2, FS_Subset

\* A row more is its total more, and a table of the same totals adds up to the
\* same.
LEMMA OverAdds ==
  ASSUME NEW rows, NEW D, IsFiniteSet(D), NEW x, x \notin D, \A d \in D \cup {x} : rows[d].total \in Int
  PROVE  /\ TotalOver(rows, D) \in Int
         /\ TotalOver(rows, D \cup {x}) = TotalOver(rows, D) + rows[x].total
<1>1. PICK g : g = [d \in D \cup {x} |-> rows[d].total]
  OBVIOUS
<1>2. \A d \in D \cup {x} : g[d] = rows[d].total /\ g[d] \in Int
  BY <1>1
<1>3. PICK E : E = D \cup {x}
  OBVIOUS
<1>4. IsFiniteSet(E)
  BY <1>3, FS_AddElement
<1>5. TotalOver(rows, D) = Total(g, D)
  BY <1>2, TotalOverIs
<1>6. TotalOver(rows, E) = Total(g, E)
  BY <1>2, <1>3, <1>4, TotalOverIs
<1>7. Total(g, D) \in Int /\ Total(g, D \cup {x}) = Total(g, D) + g[x]
  BY <1>2, TotalAdds
<1>8. g[x] = rows[x].total
  BY <1>2
<1> QED
  BY <1>3, <1>5, <1>6, <1>7, <1>8

\* A table of the same totals adds up to the same.
LEMMA OverSame ==
  ASSUME NEW rows, NEW new, NEW D, IsFiniteSet(D), \A d \in D : new[d].total = rows[d].total
  PROVE  TotalOver(new, D) = TotalOver(rows, D)
<1>1. PICK g : g = [d \in D |-> rows[d].total]
  OBVIOUS
<1>2. \A d \in D : g[d] = rows[d].total /\ g[d] = new[d].total
  BY <1>1
<1> QED
  BY <1>2, TotalOverIs

\* There is nothing to add up without documents.
LEMMA OverNone ==
  ASSUME NEW rows
  PROVE  TotalOver(rows, {}) = 0
<1>1. IsFiniteSet({})
  BY FS_EmptySet
<1>2. TotalOver(rows, {}) = Total(rows, {})
  BY <1>1, TotalOverIs
<1>3. PICK kt : SumsUp(rows, {}, kt) /\ Total(rows, {}) = kt[{}]
  BY <1>1, TotalIs
<1>4. kt[{}] = 0
  BY <1>3, SumIs
<1> QED
  BY <1>2, <1>3, <1>4

OfSaleAll(s) == OfSale(s, "INVOICE") \cup OfSale(s, "CREDIT_NOTE")

Balance(s) == TotalOver(docs, OfSaleAll(s))

\* The documents of a sale, by the sale alone.
LEMMA OfSaleIs ==
  ASSUME TypeOK, NEW s
  PROVE  OfSaleAll(s) = {d \in DOMAIN docs : docs[d].sale = s}
BY Table DEF OfSaleAll, OfSale, Doc

\* The balance is a number.
LEMMA BalanceIs ==
  ASSUME TypeOK, NEW s
  PROVE  Balance(s) \in Int
<1>1. OfSaleAll(s) \in SUBSET DOMAIN docs
  BY DEF OfSaleAll, OfSale
<1>2. PICK D : D = OfSaleAll(s)
  OBVIOUS
<1>3. IsFiniteSet(D) /\ \A d \in D : docs[d].total \in Int
  BY <1>1, <1>2, RowsFinite
<1>4. PICK it : SumsUp([d \in D |-> docs[d].total], D, it) /\ Total([d \in D |-> docs[d].total], D) = it[D]
  BY <1>3, TotalIs
<1>5. it[D] \in Int
  <2>1. PICK g : g = [d \in D |-> docs[d].total]
    OBVIOUS
  <2>2. \A x \in D : g[x] \in Int
    BY <1>3, <2>1
  <2>3. SumsUp(g, D, it) /\ D \in SUBSET D
    BY <1>4, <2>1
  <2> QED
    BY <1>3, <2>2, <2>3, SumAnyOrder
<1>6. TotalOver(docs, D) = it[D]
  BY <1>3, <1>4, TotalOverIs
<1> QED
  BY <1>2, <1>5, <1>6 DEF Balance

\* Filing does not change what the documents add up to.
LEMMA BalanceFiled ==
  ASSUME TypeOK, Filed \/ UNCHANGED docs, NEW s
  PROVE  Balance(s)' = Balance(s)
<1>1. CASE UNCHANGED docs
  BY <1>1 DEF Balance, OfSaleAll, OfSale
<1>2. CASE Filed
  <2>1. PICK D : D = OfSaleAll(s)
    OBVIOUS
  <2>2. OfSaleAll(s)' = D
    BY <1>2, <2>1 DEF Filed, OfSaleAll, OfSale
  <2>3. D \in SUBSET DOMAIN docs
    BY <2>1 DEF OfSaleAll, OfSale
  <2>4. IsFiniteSet(D) /\ \A d \in D : docs'[d].total = docs[d].total
    BY <1>2, <2>3, RowsFinite DEF Filed
  <2>5. TotalOver(docs', D) = TotalOver(docs, D)
    BY <2>4, OverSame
  <2> QED
    BY <2>1, <2>2, <2>5 DEF Balance
<1> QED
  BY <1>1, <1>2

\* A new document changes the balance of its sale by its sign.
LEMMA BalanceAdded ==
  ASSUME TypeOK, NEW D, NEW by, Grown(1, D, by), NEW s0, NEW kind,
         docs'[Len(docs) + 1].sale = s0, docs'[Len(docs) + 1].total = Sign(kind), NEW s
  PROVE  Balance(s)' = Balance(s) + (IF s = s0 THEN Sign(kind) ELSE 0)
<1>1. PICK n \in Nat : n = Len(docs) /\ DOMAIN docs = 1 .. n /\ DOMAIN docs' = 1 .. n + 1
  BY DEF Grown
<1>2. PICK E : E = OfSaleAll(s)
  OBVIOUS
<1>3. E = {d \in 1 .. n : docs[d].sale = s}
  BY <1>1, <1>2, OfSaleIs
<1>4. \A d \in 1 .. n : docs'[d].sale = docs[d].sale /\ docs'[d].total = docs[d].total
  BY <1>1 DEF Grown, Kept
<1>5. OfSaleAll(s)' = {d \in 1 .. n + 1 : docs'[d].sale = s}
  <2>1. \A d \in DOMAIN docs' : docs'[d].kind \in {"INVOICE", "CREDIT_NOTE"}
    <3>1. \A d \in DOMAIN docs' : docs'[d] \in Doc
      BY LenProperties DEF Grown
    <3> QED
      BY <3>1 DEF Doc
  <2>2. OfSaleAll(s)' = {d \in DOMAIN docs' : docs'[d].sale = s}
    BY <2>1 DEF OfSaleAll, OfSale
  <2> QED
    BY <1>1, <2>2
<1>6. OfSaleAll(s)' = IF s = s0 THEN E \cup {n + 1} ELSE E
  <2>1. \A d \in 1 .. n + 1 : d \in 1 .. n \/ d = n + 1
    OBVIOUS
  <2>2. n + 1 \in 1 .. n + 1 /\ \A d \in 1 .. n : d \in 1 .. n + 1
    OBVIOUS
  <2> QED
    BY <1>1, <1>3, <1>4, <1>5, <2>1, <2>2
<1>7. n + 1 \notin E
  BY <1>3
<1>8. IsFiniteSet(E) /\ \A d \in E : docs[d].total \in Int /\ docs'[d].total = docs[d].total
  BY <1>1, <1>3, <1>4, RowsFinite
<1>9. TotalOver(docs', E) = TotalOver(docs, E)
  BY <1>8, OverSame
<1>10. Sign(kind) \in Int
  BY DEF Sign
<1>11. Balance(s) = TotalOver(docs, E) /\ Balance(s) \in Int
  BY <1>2, BalanceIs DEF Balance
<1>12. CASE s = s0
  <2>1. \A d \in E \cup {n + 1} : docs'[d].total \in Int
    BY <1>1, <1>8, <1>10
  <2>2. TotalOver(docs', E \cup {n + 1}) = TotalOver(docs', E) + docs'[n + 1].total
    BY <1>7, <1>8, <2>1, OverAdds
  <2>3. Balance(s)' = TotalOver(docs', E \cup {n + 1})
    BY <1>6, <1>12 DEF Balance
  <2> QED
    BY <1>1, <1>9, <1>11, <1>12, <2>2, <2>3
<1>13. CASE s # s0
  <2>1. Balance(s)' = TotalOver(docs', E)
    BY <1>6, <1>13 DEF Balance
  <2> QED
    BY <1>9, <1>11, <1>13, <2>1
<1> QED
  BY <1>12, <1>13

\* A credit note and an invoice in the place of the old one leave it as it was.
LEMMA BalanceReissued ==
  ASSUME TypeOK, NEW D, NEW by, Grown(2, D, by), NEW s0,
         docs'[Len(docs) + 1].sale = s0, docs'[Len(docs) + 1].total = -1,
         docs'[Len(docs) + 2].sale = s0, docs'[Len(docs) + 2].total = 1, NEW s
  PROVE  Balance(s)' = Balance(s)
<1>1. PICK n \in Nat : n = Len(docs) /\ DOMAIN docs = 1 .. n /\ DOMAIN docs' = 1 .. n + 2
  BY DEF Grown
<1>2. PICK E : E = OfSaleAll(s)
  OBVIOUS
<1>3. E = {d \in 1 .. n : docs[d].sale = s}
  BY <1>1, <1>2, OfSaleIs
<1>4. \A d \in 1 .. n : docs'[d].sale = docs[d].sale /\ docs'[d].total = docs[d].total
  BY <1>1 DEF Grown, Kept
<1>5. OfSaleAll(s)' = {d \in 1 .. n + 2 : docs'[d].sale = s}
  <2>1. \A d \in DOMAIN docs' : docs'[d].kind \in {"INVOICE", "CREDIT_NOTE"}
    <3>1. \A d \in DOMAIN docs' : docs'[d] \in Doc
      BY LenProperties DEF Grown
    <3> QED
      BY <3>1 DEF Doc
  <2>2. OfSaleAll(s)' = {d \in DOMAIN docs' : docs'[d].sale = s}
    BY <2>1 DEF OfSaleAll, OfSale
  <2> QED
    BY <1>1, <2>2
<1>6. OfSaleAll(s)' = IF s = s0 THEN (E \cup {n + 1}) \cup {n + 2} ELSE E
  <2>1. \A d \in 1 .. n + 2 : d \in 1 .. n \/ d = n + 1 \/ d = n + 2
    OBVIOUS
  <2>2. n + 1 \in 1 .. n + 2 /\ n + 2 \in 1 .. n + 2 /\ \A d \in 1 .. n : d \in 1 .. n + 2
    OBVIOUS
  <2> QED
    BY <1>1, <1>3, <1>4, <1>5, <2>1, <2>2
<1>7. n + 1 \notin E /\ n + 2 \notin E \cup {n + 1}
  BY <1>3
<1>8. IsFiniteSet(E) /\ \A d \in E : docs[d].total \in Int /\ docs'[d].total = docs[d].total
  BY <1>1, <1>3, <1>4, RowsFinite
<1>9. TotalOver(docs', E) = TotalOver(docs, E)
  BY <1>8, OverSame
<1>11. Balance(s) = TotalOver(docs, E) /\ Balance(s) \in Int
  BY <1>2, BalanceIs DEF Balance
<1>12. CASE s = s0
  <2>1. PICK F : F = E \cup {n + 1}
    OBVIOUS
  <2>2. /\ IsFiniteSet(F) /\ n + 2 \notin F
        /\ \A d \in E \cup {n + 1} : docs'[d].total \in Int
        /\ \A d \in F \cup {n + 2} : docs'[d].total \in Int
    BY <1>1, <1>7, <1>8, <2>1, FS_AddElement
  <2>3. TotalOver(docs', E \cup {n + 1}) = TotalOver(docs', E) + docs'[n + 1].total
    BY <1>7, <1>8, <2>2, OverAdds
  <2>4. TotalOver(docs', F \cup {n + 2}) = TotalOver(docs', F) + docs'[n + 2].total
    BY <2>2, OverAdds
  <2>5. Balance(s)' = TotalOver(docs', F \cup {n + 2})
    BY <1>6, <1>12, <2>1 DEF Balance
  <2> QED
    BY <1>1, <1>9, <1>11, <2>1, <2>3, <2>4, <2>5
<1>13. CASE s # s0
  <2>1. Balance(s)' = TotalOver(docs', E)
    BY <1>6, <1>13 DEF Balance
  <2> QED
    BY <1>9, <1>11, <2>1
<1> QED
  BY <1>12, <1>13

-----------------------------------------------------------------------------
(* A sale is declared once.                                                *)

\* The invoice of a sale that nothing supersedes is its newest.
LEMMA LiveIsNewest ==
  ASSUME Base, Chained, EndsApart, NEW s \in Sales, NEW d \in OfSale(s, "INVOICE"), docs[d].by = NoDoc
  PROVE  d = NewestInvoiceForSale(docs, s)
<1>0. TypeOK
  BY DEF Base
<1>1. PICK n \in Nat : n = Len(docs) /\ DOMAIN docs = 1 .. n
  BY <1>0, Table
<1>2. PICK S : S = OfSale(s, "INVOICE")
  OBVIOUS
<1>3. S \in SUBSET (1 .. n) /\ d \in S /\ NewestInvoiceForSale(docs, s) = Newest(S)
  BY <1>1, <1>2 DEF OfSale, NewestInvoiceForSale
<1>4. PICK top : top = Max(S)
  OBVIOUS
<1>5. top \in S /\ d =< top
  BY <1>3, <1>4, MaxOf
<1>6. Newest(S) = top
  BY <1>3, <1>4 DEF Newest
<1>7. top \in 1 .. n /\ docs[top].sale = s /\ docs[top].kind = "INVOICE"
  BY <1>1, <1>2, <1>5 DEF OfSale
<1>8. PICK T : T = {e \in 1 .. n : docs[e].sale = s /\ top =< e /\ (e = top \/ \E x \in DOMAIN docs : docs[x].by = e)}
  OBVIOUS
<1>9. T \in SUBSET (1 .. n) /\ top \in T
  BY <1>7, <1>8
<1>10. PICK last : last = Max(T)
  OBVIOUS
<1>11. last \in T /\ \A e \in T : e =< last
  BY <1>9, <1>10, MaxOf
<1>12. docs[last].by = NoDoc
  <2> SUFFICES ASSUME docs[last].by # NoDoc PROVE FALSE
    OBVIOUS
  <2>1. last \in DOMAIN docs /\ last \in 1 .. n /\ docs[last].sale = s /\ top =< last
    BY <1>1, <1>8, <1>11
  <2>2. PICK e \in (last + 1) .. n : e = docs[last].by
    BY <1>0, <1>1, <2>1 DEF TypeOK
  <2>3. docs[e].sale = s
    BY <2>1, <2>2 DEF Chained
  <2>4. e \in 1 .. n /\ top =< e /\ last < e
    BY <1>7, <2>1, <2>2
  <2>5. e \in T
    BY <1>8, <2>1, <2>2, <2>3, <2>4
  <2> QED
    BY <1>11, <2>1, <2>4, <2>5
<1>13. last \in DOMAIN docs /\ IsEnd(last) /\ docs[last].sale = s /\ top =< last
  BY <1>1, <1>7, <1>8, <1>11, <1>12 DEF IsEnd
<1>14. d \in DOMAIN docs /\ IsEnd(d) /\ docs[d].sale = s
  BY DEF OfSale, IsEnd
<1>15. d = last
  BY <1>13, <1>14 DEF EndsApart
<1>16. d = top
  BY <1>1, <1>5, <1>7, <1>13, <1>14, <1>15
<1> QED
  BY <1>3, <1>6, <1>16

\* Payments change by commits alone.
LEMMA PayStays ==
  ASSUME Base, [Next]_vars
  PROVE  UNCHANGED pay \/ \E r \in Requests : Commits(r)
<1>1. CASE UNCHANGED vars
  BY <1>1 DEF vars
<1>2. CASE Next
  BY <1>2 DEF Next, Commits, CreateInvoiceForSale, reversalArrives, reissueInvoice, ClaimReceiptByCode,
              createCreditNote, ClaimReissues, ConfigureEtims, SetEtimsConfigured, SetEtimsFailed, Ends,
              ActivateTaxPending, Submit, AckInvoice, RetryLater, Park, retryInvoice
<1> QED
  BY <1>1, <1>2

\* A sale's part of Closed.
ClosedAt(s) ==
    /\ pay[s] = "matched" => OfSale(s, "INVOICE") # {}
    /\ pay[s] = "reversed" => \A d \in OfSale(s, "INVOICE") : ~MayCredit(d)

\* Rows stay, with their pointers or with new ones.
Stays ==
    /\ DOMAIN docs \subseteq DOMAIN docs'
    /\ \A d \in DOMAIN docs :
          /\ docs'[d].sale = docs[d].sale /\ docs'[d].kind = docs[d].kind /\ docs'[d].parent = docs[d].parent
          /\ docs'[d].by = NoDoc => docs[d].by = NoDoc

\* What may not be credited does not become so.
LEMMA MayCreditStays ==
  ASSUME Stays, NEW d \in DOMAIN docs, MayCredit(d)'
  PROVE  MayCredit(d)
<1>1. docs'[d].kind = "INVOICE" /\ docs'[d].by = NoDoc /\ FindCreditNoteForParent(docs', d) = {}
  BY DEF MayCredit
<1>2. docs[d].kind = "INVOICE" /\ docs[d].by = NoDoc
  BY <1>1 DEF Stays
<1>3. FindCreditNoteForParent(docs, d) = {}
  <2> SUFFICES ASSUME NEW c \in DOMAIN docs, docs[c].kind = "CREDIT_NOTE", docs[c].parent = d PROVE FALSE
    BY DEF FindCreditNoteForParent
  <2>1. c \in DOMAIN docs' /\ docs'[c].kind = "CREDIT_NOTE" /\ docs'[c].parent = d
    BY DEF Stays
  <2> QED
    BY <1>1, <2>1 DEF FindCreditNoteForParent
<1> QED
  BY <1>2, <1>3 DEF MayCredit

\* A sale stays closed that gets no invoice, and one that is open has its own.
LEMMA ClosedKept ==
  ASSUME Stays, NEW s \in Sales, ClosedAt(s), pay'[s] = pay[s],
         \A d \in DOMAIN docs' : d \in DOMAIN docs \/ docs'[d].sale # s \/ docs'[d].kind # "INVOICE" \/ pay[s] # "reversed"
  PROVE  ClosedAt(s)'
<1>1. ASSUME pay'[s] = "matched" PROVE OfSale(s, "INVOICE")' # {}
  <2>1. PICK d : d \in OfSale(s, "INVOICE")
    BY <1>1 DEF ClosedAt
  <2> QED
    BY <2>1 DEF OfSale, Stays
<1>2. ASSUME pay'[s] = "reversed", NEW d \in OfSale(s, "INVOICE")' PROVE ~MayCredit(d)'
  <2>1. d \in DOMAIN docs' /\ docs'[d].sale = s /\ docs'[d].kind = "INVOICE"
    BY <1>2 DEF OfSale
  <2>2. d \in DOMAIN docs
    BY <1>2, <2>1
  <2>3. d \in OfSale(s, "INVOICE")
    BY <2>1, <2>2 DEF OfSale, Stays
  <2> QED
    BY <1>2, <2>2, <2>3, MayCreditStays DEF ClosedAt
<1> QED
  BY <1>1, <1>2 DEF ClosedAt

\* What a sale's documents add up to, and what may still be done about it.
TallyAt(s) == ClosedAt(s) /\ Balance(s) = IF pay[s] = "matched" THEN 1 ELSE 0

\* A step that adds rows leaves the others where they are.
LEMMA GrownStays ==
  ASSUME NEW k \in Nat, NEW D, NEW by, Grown(k, D, by), by # NoDoc \/ D = {}
  PROVE  Stays
<1>1. \A d \in DOMAIN docs : Kept(docs[d], docs'[d]) /\ docs'[d].by = IF d \in D THEN by ELSE docs[d].by
  BY DEF Grown
<1>2. DOMAIN docs \subseteq DOMAIN docs'
  BY DEF Grown
<1> QED
  BY <1>1, <1>2 DEF Stays, Kept

\* CommitInvoice opens the account of its sale.
LEMMA InvoiceTally ==
  ASSUME Base, NEW r \in Requests, CommitInvoice(r), NEW s \in Sales, TallyAt(s)
  PROVE  TallyAt(s)'
<1>0. TypeOK /\ RequestsOK
  BY DEF Base
<1>1. PICK s0 \in Sales : s0 = req[r].sale /\ pay[s0] = "none" /\ \E st : Added(s0, "INVOICE", NoDoc, st)
  BY <1>0, InvoiceEffect
<1>2. pay' = [pay EXCEPT ![s0] = "matched"]
  BY <1>1 DEF CommitInvoice
<1>3. \A x \in Sales : pay'[x] = IF x = s0 THEN "matched" ELSE pay[x]
  BY <1>0, <1>2, PayChanges
<1>4. PICK n \in Nat : n = Len(docs) /\ DOMAIN docs = 1 .. n /\ DOMAIN docs' = 1 .. n + 1
  BY <1>1 DEF Added, Grown
<1>5. /\ Grown(1, {}, NoDoc) /\ docs'[n + 1].sale = s0 /\ docs'[n + 1].kind = "INVOICE"
      /\ docs'[n + 1].total = Sign("INVOICE")
  BY <1>1, <1>4 DEF Added, New
<1>6. Balance(s)' = Balance(s) + (IF s = s0 THEN Sign("INVOICE") ELSE 0)
  BY <1>0, <1>4, <1>5, BalanceAdded
<1>7. Sign("INVOICE") = 1 /\ Balance(s) \in Int
  BY <1>0, BalanceIs DEF Sign
<1>8. Balance(s)' = IF pay'[s] = "matched" THEN 1 ELSE 0
  BY <1>1, <1>3, <1>6, <1>7 DEF TallyAt
<1>9. CASE s = s0
  <2>1. n + 1 \in OfSale(s, "INVOICE")'
    BY <1>4, <1>5, <1>9 DEF OfSale
  <2>2. ClosedAt(s)'
    BY <1>3, <1>9, <2>1 DEF ClosedAt
  <2> QED
    BY <1>8, <2>2 DEF TallyAt
<1>10. CASE s # s0
  <2>1. Stays
    BY <1>5, GrownStays
  <2>2. \A d \in DOMAIN docs' : d \in DOMAIN docs \/ docs'[d].sale # s
    <3>1. \A d \in 1 .. n + 1 : d \in 1 .. n \/ d = n + 1
      OBVIOUS
    <3> QED
      BY <1>4, <1>5, <1>10, <3>1
  <2>3. ClosedAt(s)'
    BY <1>3, <1>10, <2>1, <2>2, ClosedKept DEF TallyAt
  <2> QED
    BY <1>8, <2>3 DEF TallyAt
<1> QED
  BY <1>9, <1>10

\* A reissue of an acknowledged invoice, of a payment that stands, leaves the
\* account as it is.
LEMMA ReissueTally ==
  ASSUME Base, NEW r \in Requests, ReissueInvoice(r), NEW s \in Sales, TallyAt(s),
         "early" \notin mishap', "again" \notin mishap'
  PROVE  TallyAt(s)'
<1>0. TypeOK /\ RequestsOK /\ Unpaid
  BY DEF Base
<1>1. PICK orig : orig = req[r].read.doc
  OBVIOUS
<1>2. Noted(r, Early(req[r].read.acked) \cup Again(docs[orig].sale)) /\ UNCHANGED pay
  BY <1>1 DEF ReissueInvoice
<1>3. req[r].read.acked /\ pay[docs[orig].sale] # "reversed"
  BY <1>2 DEF Noted, Early, Again
<1>4. PICK st : orig \in DOMAIN docs /\ Reissued(orig, st, TRUE)
  BY <1>0, <1>1, <1>3, ReissueEffect, RequestIs
<1>5. PICK s0 : s0 = docs[orig].sale
  OBVIOUS
<1>6. PICK n \in Nat : n = Len(docs) /\ DOMAIN docs = 1 .. n /\ DOMAIN docs' = 1 .. n + 2
  BY <1>4 DEF Reissued, Grown
<1>7. /\ Grown(2, {orig}, n + 2)
      /\ docs'[n + 1].sale = s0 /\ docs'[n + 1].total = Sign("CREDIT_NOTE")
      /\ docs'[n + 2].sale = s0 /\ docs'[n + 2].total = Sign("INVOICE")
  BY <1>4, <1>5, <1>6 DEF Reissued, New
<1>8. Sign("INVOICE") = 1 /\ Sign("CREDIT_NOTE") = -1
  BY DEF Sign
<1>9. Balance(s)' = Balance(s)
  BY <1>0, <1>6, <1>7, <1>8, BalanceReissued
<1>10. Stays
  <2>1. n + 2 # NoDoc /\ 2 \in Nat
    BY DEF NoDoc
  <2> QED
    BY <1>7, <2>1, GrownStays
<1>11. \A d \in DOMAIN docs' : d \in DOMAIN docs \/ docs'[d].sale # s \/ pay[s] # "reversed"
  <2>1. \A d \in 1 .. n + 2 : d \in 1 .. n \/ d = n + 1 \/ d = n + 2
    OBVIOUS
  <2> QED
    BY <1>3, <1>5, <1>6, <1>7, <2>1
<1>12. ClosedAt(s)'
  BY <1>2, <1>10, <1>11, ClosedKept DEF TallyAt
<1> QED
  BY <1>2, <1>9, <1>12 DEF TallyAt

\* The merchant's credit note closes the account: what may be credited is the
\* invoice at the end of the chain, of a payment that was not reversed.
LEMMA CreditTally ==
  ASSUME Base, EndsApart, NEW r \in Requests, CreateCreditNoteForInvoice(r), NEW s \in Sales, TallyAt(s),
         "stale" \notin mishap'
  PROVE  TallyAt(s)'
<1>0. TypeOK /\ RequestsOK /\ Unpaid
  BY DEF Base
<1>1. PICK orig : orig = req[r].read.doc
  OBVIOUS
<1>2. PICK st : /\ orig \in DOMAIN docs /\ docs[orig].kind = "INVOICE" /\ docs[orig].sale \in Sales
                /\ orig = req[r].arg /\ CreditedBy(orig, st)
  BY <1>0, <1>1, CreditEffect
<1>3. PICK s0 \in Sales : s0 = docs[orig].sale
  BY <1>2
<1>4. MayCredit(orig)
  <2>1. req[r].pc = "credit" /\ \E kinds : Noted(r, kinds)
    BY DEF CreateCreditNoteForInvoice
  <2> QED
    BY <1>2, <2>1 DEF Noted, Refused
<1>5. pay' = [pay EXCEPT ![s0] = "reversed"]
  BY <1>1, <1>3 DEF CreateCreditNoteForInvoice
<1>6. \A x \in Sales : pay'[x] = IF x = s0 THEN "reversed" ELSE pay[x]
  BY <1>0, <1>5, PayChanges
<1>7. PICK n \in Nat : n = Len(docs) /\ DOMAIN docs = 1 .. n /\ DOMAIN docs' = 1 .. n + 1
  BY <1>2 DEF CreditedBy, Grown
<1>8. /\ Grown(1, {orig}, n + 1) /\ docs'[n + 1].sale = s0 /\ docs'[n + 1].kind = "CREDIT_NOTE"
      /\ docs'[n + 1].total = Sign("CREDIT_NOTE")
  BY <1>2, <1>3, <1>7 DEF CreditedBy, New
<1>9. Balance(s)' = Balance(s) + (IF s = s0 THEN Sign("CREDIT_NOTE") ELSE 0)
  BY <1>0, <1>7, <1>8, BalanceAdded
<1>10. Sign("CREDIT_NOTE") = -1 /\ Balance(s) \in Int
  BY <1>0, BalanceIs DEF Sign
<1>11. Stays
  <2>1. n + 1 # NoDoc /\ 1 \in Nat
    BY DEF NoDoc
  <2> QED
    BY <1>8, <2>1, GrownStays
<1>12. \A d \in DOMAIN docs' : d \in DOMAIN docs \/ d = n + 1
  BY <1>7
<1>13. CASE s = s0
  <2>1. pay[s] = "matched"
    <3>1. pay[s] # "none" /\ pay[s] \in {"none", "matched", "reversed"}
      BY <1>0, <1>2, <1>3, <1>13 DEF Unpaid, TypeOK
    <3>2. pay[s] # "reversed"
      BY <1>2, <1>3, <1>4, <1>13 DEF TallyAt, ClosedAt, OfSale
    <3> QED
      BY <3>1, <3>2
  <2>2. Balance(s)' = 0
    BY <1>9, <1>10, <1>13, <2>1 DEF TallyAt
  <2>3. ASSUME NEW d \in OfSale(s, "INVOICE")', MayCredit(d)' PROVE FALSE
    <3>1. d \in DOMAIN docs' /\ docs'[d].sale = s /\ docs'[d].kind = "INVOICE" /\ docs'[d].by = NoDoc
      BY <2>3 DEF OfSale, MayCredit
    <3>2. d \in DOMAIN docs
      BY <1>8, <1>12, <3>1
    <3>3. docs[d].sale = s /\ docs[d].kind = "INVOICE" /\ docs[d].by = NoDoc
      BY <1>11, <3>1, <3>2 DEF Stays
    <3>4. IsEnd(d) /\ IsEnd(orig)
      BY <1>2, <1>4, <3>3 DEF IsEnd, MayCredit
    <3>5. d = orig
      BY <1>2, <1>3, <1>13, <3>2, <3>3, <3>4 DEF EndsApart
    <3>6. docs'[orig].by = n + 1
      BY <1>2, <1>8 DEF Grown
    <3> QED
      BY <3>1, <3>5, <3>6 DEF NoDoc
  <2>4. pay'[s] = "reversed"
    BY <1>6, <1>13
  <2>5. ClosedAt(s)'
    BY <2>3, <2>4 DEF ClosedAt
  <2> QED
    BY <2>2, <2>4, <2>5 DEF TallyAt
<1>14. CASE s # s0
  <2>1. Balance(s)' = Balance(s) /\ pay'[s] = pay[s]
    BY <1>6, <1>9, <1>10, <1>14
  <2>2. ClosedAt(s)'
    BY <1>8, <1>11, <1>12, <1>14, <2>1, ClosedKept DEF TallyAt
  <2> QED
    BY <2>1, <2>2 DEF TallyAt
<1> QED
  BY <1>13, <1>14

\* So does a reversal that finds the newest invoice acknowledged.
LEMMA ReversalTally ==
  ASSUME Base, Chained, EndsApart, NEW r \in Requests, applyReversal(r), NEW s \in Sales,
         \A x \in Sales : TallyAt(x), "early" \notin mishap', "again" \notin mishap'
  PROVE  TallyAt(s)'
<1>0. TypeOK /\ RequestsOK /\ Unpaid
  BY DEF Base
<1>1. PICK d0 : d0 = req[r].read.doc
  OBVIOUS
<1>2. PICK s0 \in Sales : s0 = req[r].sale /\ pay[s0] # "none"
  BY <1>0, ReversalEffect
<1>3. /\ Noted(r, Early(d0 = NewestInvoiceForSale(docs, s0)) \cup Again(s0))
      /\ pay' = [pay EXCEPT ![s0] = "reversed"]
  BY <1>1, <1>2 DEF applyReversal
<1>4. d0 = NewestInvoiceForSale(docs, s0) /\ pay[s0] # "reversed"
  BY <1>3 DEF Noted, Early, Again
<1>5. pay[s0] = "matched"
  BY <1>0, <1>2, <1>4 DEF TypeOK
<1>6. d0 # NoDoc
  <2>1. PICK S : S = OfSale(s0, "INVOICE")
    OBVIOUS
  <2>2. S # {} /\ Newest(S) = d0
    BY <1>4, <1>5, <2>1 DEF TallyAt, ClosedAt, NewestInvoiceForSale, OfSale
  <2>3. Len(docs) \in Nat /\ S \in SUBSET (1 .. Len(docs))
    BY <1>0, <2>1, Table DEF OfSale
  <2>4. d0 \in 1 .. Len(docs)
    BY <2>2, <2>3, MaxOf DEF Newest
  <2> QED
    BY <2>4 DEF NoDoc
<1>7. d0 \in DOMAIN docs /\ Added(s0, "CREDIT_NOTE", d0, "QUEUED")
  BY <1>0, <1>1, <1>2, <1>6, ReversalEffect
<1>8. \A x \in Sales : pay'[x] = IF x = s0 THEN "reversed" ELSE pay[x]
  BY <1>0, <1>3, PayChanges
<1>9. PICK n \in Nat : n = Len(docs) /\ DOMAIN docs = 1 .. n /\ DOMAIN docs' = 1 .. n + 1
  BY <1>7 DEF Added, Grown
<1>10. /\ Grown(1, {}, NoDoc) /\ docs'[n + 1].sale = s0 /\ docs'[n + 1].kind = "CREDIT_NOTE"
       /\ docs'[n + 1].parent = d0 /\ docs'[n + 1].total = Sign("CREDIT_NOTE")
  BY <1>7, <1>9 DEF Added, New
<1>11. Balance(s)' = Balance(s) + (IF s = s0 THEN Sign("CREDIT_NOTE") ELSE 0)
  BY <1>0, <1>9, <1>10, BalanceAdded
<1>12. Sign("CREDIT_NOTE") = -1 /\ Balance(s) \in Int
  BY <1>0, BalanceIs DEF Sign
<1>13. Stays
  BY <1>10, GrownStays
<1>14. \A d \in DOMAIN docs' : d \in DOMAIN docs \/ d = n + 1
  BY <1>9
<1>15. CASE s = s0
  <2>1. Balance(s)' = 0
    BY <1>5, <1>11, <1>12, <1>15 DEF TallyAt
  <2>2. ASSUME NEW d \in OfSale(s, "INVOICE")', MayCredit(d)' PROVE FALSE
    <3>1. /\ d \in DOMAIN docs' /\ docs'[d].sale = s /\ docs'[d].kind = "INVOICE" /\ docs'[d].by = NoDoc
          /\ FindCreditNoteForParent(docs', d) = {}
      BY <2>2 DEF OfSale, MayCredit
    <3>2. d \in DOMAIN docs
      BY <1>10, <1>14, <3>1
    <3>3. d \in OfSale(s, "INVOICE") /\ docs[d].by = NoDoc
      BY <1>13, <3>1, <3>2 DEF Stays, OfSale
    <3>4. d = d0
      BY <1>4, <1>15, <3>3, LiveIsNewest
    <3>5. n + 1 \in FindCreditNoteForParent(docs', d)
      BY <1>9, <1>10, <3>4 DEF FindCreditNoteForParent
    <3> QED
      BY <3>1, <3>5
  <2>3. pay'[s] = "reversed"
    BY <1>8, <1>15
  <2>4. ClosedAt(s)'
    BY <2>2, <2>3 DEF ClosedAt
  <2> QED
    BY <2>1, <2>3, <2>4 DEF TallyAt
<1>16. CASE s # s0
  <2>1. Balance(s)' = Balance(s) /\ pay'[s] = pay[s]
    BY <1>8, <1>11, <1>12, <1>16
  <2>2. ClosedAt(s)'
    BY <1>10, <1>13, <1>14, <1>16, <2>1, ClosedKept DEF TallyAt
  <2> QED
    BY <2>1, <2>2 DEF TallyAt
<1> QED
  BY <1>15, <1>16

\* The mishaps the sums do not hold under.
Clean == Free({"stale", "early", "again"})

\* Chains and accounts.
Accounts == Chains /\ (Clean => Closed /\ \A s \in Sales : TallyAt(s))

\* They hold throughout.
LEMMA AccountsHold == Spec => []Accounts
<1>1. Init => Accounts
  <2> SUFFICES ASSUME Init PROVE Accounts
    OBVIOUS
  <2>1. Chains
    <3>1. DOMAIN docs = {}
      BY DEF Init
    <3> QED
      BY <3>1, InitBase DEF Chains, Chained, EndsApart
  <2>2. ASSUME NEW s \in Sales PROVE TallyAt(s)
    <3>1. pay[s] = "none" /\ OfSaleAll(s) = {}
      BY DEF Init, OfSaleAll, OfSale
    <3>2. Balance(s) = 0
      BY <3>1, OverNone DEF Balance
    <3> QED
      BY <3>1, <3>2 DEF TallyAt, ClosedAt
  <2>3. Closed
    BY <2>2 DEF Closed, TallyAt, ClosedAt
  <2> QED
    BY <2>1, <2>2, <2>3 DEF Accounts
<1>2. Chains /\ Accounts /\ [Next]_vars /\ Chains' => Accounts'
  <2> SUFFICES ASSUME Chains, Accounts, [Next]_vars, Chains', Clean' PROVE Closed' /\ \A s \in Sales : TallyAt(s)'
    BY DEF Accounts
  <2>1. Base /\ Chained /\ TypeOK
    BY DEF Chains, Base
  <2>2. "stale" \notin mishap' /\ "early" \notin mishap' /\ "again" \notin mishap'
    BY DEF Clean, Free
  <2>3. Clean /\ Free({"stale"})
    BY <2>1, <2>2, MishapsStay DEF Clean, Free
  <2>4. EndsApart /\ \A s \in Sales : TallyAt(s)
    BY <2>3 DEF Chains, Accounts
  <2>5. ASSUME NEW s \in Sales PROVE TallyAt(s)'
    <3>1. CASE \E r \in Requests : Commits(r)
      <4>1. PICK r \in Requests : Commits(r)
        BY <3>1
      <4>2. CASE CommitInvoice(r)
        BY <2>1, <2>4, <4>2, InvoiceTally
      <4>3. CASE ReissueInvoice(r)
        BY <2>1, <2>2, <2>4, <4>3, ReissueTally
      <4>4. CASE CreateCreditNoteForInvoice(r)
        BY <2>1, <2>2, <2>4, <4>4, CreditTally
      <4>5. CASE applyReversal(r)
        BY <2>1, <2>2, <2>4, <4>5, ReversalTally
      <4> QED
        BY <4>1, <4>2, <4>3, <4>4, <4>5 DEF Commits
    <3>2. CASE ~\E r \in Requests : Commits(r)
      <4>1. UNCHANGED pay
        BY <2>1, <3>2, PayStays
      <4>2. Filed \/ UNCHANGED docs
        BY <2>1, <3>2, StepKinds, FilesIs, ActivateIs
      <4>3. Balance(s)' = Balance(s)
        BY <2>1, <4>2, BalanceFiled
      <4>4. Stays /\ DOMAIN docs' = DOMAIN docs
        BY <4>2 DEF Stays, Filed
      <4>5. ClosedAt(s)'
        BY <2>4, <4>1, <4>4, ClosedKept DEF TallyAt
      <4> QED
        BY <2>4, <4>1, <4>3, <4>5 DEF TallyAt
    <3> QED
      BY <3>1, <3>2
  <2>6. Closed'
    BY <2>5 DEF Closed, TallyAt, ClosedAt
  <2> QED
    BY <2>5, <2>6
<1> QED
  BY <1>1, <1>2, ChainsHold, PTL DEF Spec

\* The documents of a sale, filed or on their way, declare it once while its
\* payment stands and not at all once it is reversed, after any sequence of
\* reissues, claims, credit notes and reversals of any number of sales, none of
\* which came too early, twice, or across another.
THEOREM DeclaredOnceHolds == Spec => []DeclaredOnce
<1>1. Accounts => DeclaredOnce
  <2> SUFFICES ASSUME Accounts, Clean, NEW s \in Sales
               PROVE  TotalOver(docs, OfSale(s, "INVOICE") \cup OfSale(s, "CREDIT_NOTE"))
                      = IF pay[s] = "matched" THEN 1 ELSE 0
    BY DEF DeclaredOnce, Clean
  <2>1. TallyAt(s)
    BY DEF Accounts
  <2> QED
    BY <2>1 DEF TallyAt, Balance, OfSaleAll
<1> QED
  BY <1>1, AccountsHold, PTL

-----------------------------------------------------------------------------
(* The export and what KRA holds.                                          *)

\* The sign of a total is that of the kind, whatever the step.
LEMMA SignedHolds == Spec => []Signed
<1>1. Init => Signed
  BY DEF Init, Signed
<1>2. Base /\ Signed /\ [Next]_vars => Signed'
  <2> SUFFICES ASSUME Base, Signed, [Next]_vars, NEW d \in DOMAIN docs' PROVE docs'[d].total = Sign(docs'[d].kind)
    BY DEF Signed, Sign
  <2>0. TypeOK /\ RequestsOK
    BY DEF Base
  <2>1. ASSUME d \in DOMAIN docs, docs'[d].kind = docs[d].kind, docs'[d].total = docs[d].total
        PROVE  docs'[d].total = Sign(docs'[d].kind)
    BY <2>1 DEF Signed, Sign
  <2>2. CASE Filed \/ UNCHANGED docs
    BY <2>1, <2>2 DEF Filed
  <2>3. ASSUME NEW k \in Nat, NEW D, NEW by, Grown(k, D, by),
               \A x \in Len(docs) + 1 .. Len(docs) + k : docs'[x].total = Sign(docs'[x].kind)
        PROVE  docs'[d].total = Sign(docs'[d].kind)
    <3>1. PICK n \in Nat : n = Len(docs) /\ DOMAIN docs = 1 .. n /\ DOMAIN docs' = 1 .. n + k
      BY <2>3 DEF Grown
    <3>2. d \in 1 .. n \/ d \in n + 1 .. n + k
      BY <3>1
    <3> QED
      BY <2>1, <2>3, <3>1, <3>2 DEF Grown, Kept
  <2>4. PICK n \in Nat : n = Len(docs)
    BY <2>0, Table
  <2>5. (\A x \in n + 1 .. n + 1 : x = n + 1) /\ (\A x \in n + 1 .. n + 2 : x = n + 1 \/ x = n + 2)
    OBVIOUS
  <2>6. ASSUME NEW s, NEW kind, NEW parent, NEW st, Added(s, kind, parent, st)
        PROVE  docs'[d].total = Sign(docs'[d].kind)
    <3>1. Grown(1, {}, NoDoc) /\ \A x \in n + 1 .. n + 1 : docs'[x].total = Sign(docs'[x].kind)
      BY <2>4, <2>5, <2>6 DEF Added, New
    <3> QED
      BY <2>3, <2>4, <3>1
  <2>7. ASSUME NEW r \in Requests, CreateCreditNoteForInvoice(r) PROVE docs'[d].total = Sign(docs'[d].kind)
    <3>1. PICK orig, st : CreditedBy(orig, st)
      BY <2>0, <2>7, CreditEffect
    <3>2. Grown(1, {orig}, n + 1) /\ \A x \in n + 1 .. n + 1 : docs'[x].total = Sign(docs'[x].kind)
      BY <2>4, <2>5, <3>1 DEF CreditedBy, New
    <3> QED
      BY <2>3, <2>4, <3>2
  <2>8. ASSUME NEW r \in Requests, ReissueInvoice(r) PROVE docs'[d].total = Sign(docs'[d].kind)
    <3>1. PICK orig, st, noted : Reissued(orig, st, noted)
      BY <2>0, <2>8, ReissueEffect
    <3>2. \/ Grown(1, {orig}, n + 1) /\ \A x \in n + 1 .. n + 1 : docs'[x].total = Sign(docs'[x].kind)
          \/ Grown(2, {orig}, n + 2) /\ \A x \in n + 1 .. n + 2 : docs'[x].total = Sign(docs'[x].kind)
      BY <2>4, <2>5, <3>1 DEF Reissued, New
    <3> QED
      BY <2>3, <2>4, <3>2
  <2>9. ASSUME NEW r \in Requests, CommitInvoice(r) PROVE docs'[d].total = Sign(docs'[d].kind)
    BY <2>0, <2>6, <2>9, InvoiceEffect
  <2>10. ASSUME NEW r \in Requests, applyReversal(r) PROVE docs'[d].total = Sign(docs'[d].kind)
    BY <2>0, <2>2, <2>6, <2>10, ReversalEffect
  <2> QED
    BY <2>0, <2>2, <2>7, <2>8, <2>9, <2>10, StepKinds, FilesIs, ActivateIs DEF Commits
<1> QED
  BY <1>1, <1>2, BaseHolds, PTL DEF Spec

\* What an invoice replaced stays what it was when the pointers lead nowhere
\* new, or to a credit note from a document that led nowhere.
LEMMA CancelledKept ==
  ASSUME TypeOK, Cancelled, NEW D, NEW by, Grown(1, D, by), docs'[Len(docs) + 1].by = NoDoc,
         \A d \in D \cap DOMAIN docs :
            by = Len(docs) + 1 /\ docs[d].by = NoDoc /\ docs'[Len(docs) + 1].kind = "CREDIT_NOTE"
  PROVE  Cancelled'
<1>1. PICK n \in Nat : n = Len(docs) /\ DOMAIN docs = 1 .. n /\ DOMAIN docs' = 1 .. n + 1
  BY DEF Grown
<1>2. \A d \in 1 .. n + 1 : d \in 1 .. n \/ d = n + 1
  OBVIOUS
<1>3. \A d \in 1 .. n : d \in 1 .. n + 1
  OBVIOUS
<1>4. ASSUME NEW d \in 1 .. n PROVE d \in Corrected' <=> d \in Corrected
  <2>1. CASE d \in D
    <3>1. d \notin Corrected
      BY <1>1, <2>1 DEF Corrected
    <3>2. docs'[d].by = n + 1 /\ docs'[n + 1].kind # "INVOICE"
      BY <1>1, <2>1 DEF Grown
    <3> QED
      BY <3>1, <3>2 DEF Corrected
  <2>2. CASE d \notin D
    <3>1. docs'[d].by = docs[d].by
      BY <1>1, <2>2 DEF Grown
    <3>2. docs[d].by # NoDoc => docs[d].by \in 1 .. n
      BY <1>1, Table DEF TypeOK
    <3>3. docs[d].by # NoDoc => docs'[docs[d].by].kind = docs[docs[d].by].kind
      BY <1>1, <3>2 DEF Grown, Kept
    <3> QED
      BY <1>1, <1>3, <3>1, <3>3 DEF Corrected
  <2> QED
    BY <2>1, <2>2
<1>5. n + 1 \notin Corrected'
  BY <1>1 DEF Corrected
<1>6. PICK C : C = Corrected
  OBVIOUS
<1>7. C \in SUBSET (1 .. n)
  BY <1>1, <1>6 DEF Corrected
<1>8. Corrected' = C
  <2>1. Corrected' \in SUBSET (1 .. n + 1)
    BY <1>1 DEF Corrected
  <2> QED
    BY <1>2, <1>3, <1>4, <1>5, <1>6, <1>7, <2>1
<1>9. IsFiniteSet(C) /\ \A d \in C : docs'[d].total = docs[d].total
  BY <1>1, <1>7, RowsFinite DEF Grown, Kept
<1>10. TotalOver(docs', C) = TotalOver(docs, C)
  BY <1>9, OverSame
<1> QED
  BY <1>6, <1>8, <1>10 DEF Cancelled

\* A reissue of an acknowledged invoice adds it and the credit note of it.
LEMMA CancelledByReissue ==
  ASSUME TypeOK, Signed, Cancelled, NEW orig \in DOMAIN docs, docs[orig].kind = "INVOICE", docs[orig].by = NoDoc,
         NEW st, Reissued(orig, st, TRUE)
  PROVE  Cancelled'
<1>1. PICK n \in Nat : n = Len(docs) /\ DOMAIN docs = 1 .. n /\ DOMAIN docs' = 1 .. n + 2
  BY DEF Reissued, Grown
<1>2. /\ \A d \in 1 .. n : /\ Kept(docs[d], docs'[d])
                           /\ docs'[d].by = IF d = orig THEN n + 2 ELSE docs[d].by
      /\ docs'[n + 1].by = n + 2 /\ docs'[n + 2].kind = "INVOICE" /\ docs'[n + 2].by = NoDoc
      /\ docs'[n + 1].total = -1
  BY <1>1 DEF Reissued, Grown, New, Sign
<1>3. /\ \A d \in 1 .. n + 2 : d \in 1 .. n \/ d = n + 1 \/ d = n + 2
      /\ \A d \in 1 .. n : d \in 1 .. n + 2
      /\ n + 1 \in 1 .. n + 2 /\ n + 2 # NoDoc
  BY DEF NoDoc
<1>4. PICK C : C = Corrected
  OBVIOUS
<1>5. C \in SUBSET (1 .. n) /\ orig \notin C /\ orig \in 1 .. n
  BY <1>1, <1>4 DEF Corrected
<1>6. ASSUME NEW d \in 1 .. n, d # orig PROVE d \in Corrected' <=> d \in C
  <2>1. docs'[d].by = docs[d].by
    BY <1>2, <1>6
  <2>2. docs[d].by # NoDoc => docs[d].by \in 1 .. n
    BY <1>1, Table DEF TypeOK
  <2>3. docs[d].by # NoDoc => docs'[docs[d].by].kind = docs[docs[d].by].kind
    BY <1>2, <2>2 DEF Kept
  <2> QED
    BY <1>1, <1>3, <1>4, <2>1, <2>3 DEF Corrected
<1>7. orig \in Corrected' /\ n + 1 \in Corrected' /\ n + 2 \notin Corrected'
  BY <1>1, <1>2, <1>3, <1>5 DEF Corrected
<1>8. Corrected' \in SUBSET (1 .. n + 2)
  BY <1>1 DEF Corrected
<1>9. PICK E : E = C \cup {orig}
  OBVIOUS
<1>10. Corrected' = E \cup {n + 1}
  BY <1>3, <1>5, <1>6, <1>7, <1>8, <1>9
<1>11. /\ IsFiniteSet(C) /\ IsFiniteSet(E) /\ n + 1 \notin E
       /\ \A d \in E : docs[d].total \in Int /\ docs'[d].total = docs[d].total
  <2>1. E \in SUBSET DOMAIN docs /\ C \in SUBSET DOMAIN docs
    BY <1>1, <1>5, <1>9
  <2>2. IsFiniteSet(C) /\ IsFiniteSet(E) /\ \A d \in E : docs[d].total \in Int
    BY <2>1, RowsFinite
  <2>3. \A d \in E : docs'[d].total = docs[d].total
    BY <1>1, <1>2, <2>1 DEF Kept
  <2>4. n + 1 \notin 1 .. n
    OBVIOUS
  <2> QED
    BY <1>1, <2>1, <2>2, <2>3, <2>4
<1>12. TotalOver(docs', E) = TotalOver(docs, E)
  BY <1>11, OverSame
<1>13. TotalOver(docs, C \cup {orig}) = TotalOver(docs, C) + docs[orig].total
  BY <1>5, <1>9, <1>11, OverAdds
<1>14. docs[orig].total = 1
  BY DEF Signed
<1>15. TotalOver(docs', E \cup {n + 1}) = TotalOver(docs', E) + docs'[n + 1].total
  <2>1. \A d \in E \cup {n + 1} : docs'[d].total \in Int
    BY <1>2, <1>11
  <2> QED
    BY <1>11, <2>1, OverAdds
<1> QED
  BY <1>2, <1>4, <1>9, <1>10, <1>12, <1>13, <1>14, <1>15 DEF Cancelled

\* What invoices replaced adds up to nothing.
Offset == Base /\ (Clean => Cancelled)

\* It does so throughout.
LEMMA OffsetHolds == Spec => []Offset
<1>1. Init => Offset
  <2> SUFFICES ASSUME Init PROVE Cancelled
    BY InitBase DEF Offset
  <2>1. Corrected = {}
    BY DEF Init, Corrected
  <2> QED
    BY <2>1, OverNone DEF Cancelled
<1>2. Base /\ Signed /\ Offset /\ [Next]_vars /\ Base' => Offset'
  <2> SUFFICES ASSUME Base, Signed, Offset, [Next]_vars, Clean' PROVE Cancelled'
    BY DEF Offset
  <2>1. TypeOK /\ RequestsOK
    BY DEF Base
  <2>2. "stale" \notin mishap' /\ "early" \notin mishap'
    BY DEF Clean, Free
  <2>3. Cancelled
    <3>1. Clean
      BY MishapsStay DEF Clean, Free
    <3> QED
      BY <3>1 DEF Offset
  <2>4. CASE Filed \/ UNCHANGED docs
    <3>1. CASE UNCHANGED docs
      BY <2>3, <3>1 DEF Cancelled, Corrected
    <3>2. CASE Filed
      <4>1. PICK C : C = Corrected
        OBVIOUS
      <4>2. \A d \in DOMAIN docs : docs[d].by # NoDoc => docs[d].by \in DOMAIN docs
        BY <2>1, Table DEF TypeOK
      <4>3. Corrected' = C
        BY <3>2, <4>1, <4>2 DEF Filed, Corrected
      <4>4. C \in SUBSET DOMAIN docs
        BY <4>1 DEF Corrected
      <4>5. IsFiniteSet(C) /\ \A d \in C : docs'[d].total = docs[d].total
        BY <2>1, <3>2, <4>4, RowsFinite DEF Filed
      <4>6. TotalOver(docs', C) = TotalOver(docs, C)
        BY <4>5, OverSame
      <4> QED
        BY <2>3, <4>1, <4>3, <4>6 DEF Cancelled
    <3> QED
      BY <2>4, <3>1, <3>2
  <2>5. ASSUME NEW s, NEW kind, NEW parent, NEW st, Added(s, kind, parent, st) PROVE Cancelled'
    BY <2>1, <2>3, <2>5, CancelledKept DEF Added
  <2>6. ASSUME NEW r \in Requests, CommitInvoice(r) PROVE Cancelled'
    BY <2>1, <2>5, <2>6, InvoiceEffect
  <2>7. ASSUME NEW r \in Requests, applyReversal(r) PROVE Cancelled'
    BY <2>1, <2>4, <2>5, <2>7, ReversalEffect
  <2>8. ASSUME NEW r \in Requests, CreateCreditNoteForInvoice(r) PROVE Cancelled'
    <3>1. PICK orig : orig = req[r].read.doc
      OBVIOUS
    <3>2. PICK st : CreditedBy(orig, st)
      BY <2>1, <2>8, <3>1, CreditEffect
    <3>3. docs[orig].by = NoDoc
      BY <2>2, <2>8, <3>1, CreditsLive
    <3>4. /\ Grown(1, {orig}, Len(docs) + 1) /\ docs'[Len(docs) + 1].by = NoDoc
          /\ docs'[Len(docs) + 1].kind = "CREDIT_NOTE"
      BY <3>2 DEF CreditedBy, New
    <3> QED
      BY <2>1, <2>3, <3>3, <3>4, CancelledKept
  <2>9. ASSUME NEW r \in Requests, ReissueInvoice(r) PROVE Cancelled'
    <3>1. PICK orig : orig = req[r].read.doc
      OBVIOUS
    <3>2. docs[orig].by = NoDoc
      BY <2>2, <2>9, <3>1, ReplacesLive
    <3>3. req[r].read.acked
      BY <2>2, <2>9 DEF ReissueInvoice, Noted, Early
    <3>4. PICK st : orig \in DOMAIN docs /\ docs[orig].kind = "INVOICE" /\ Reissued(orig, st, req[r].read.acked)
      BY <2>1, <2>9, <3>1, ReissueEffect
    <3>5. Reissued(orig, st, TRUE)
      BY <3>3, <3>4 DEF Reissued
    <3> QED
      BY <2>1, <2>3, <3>2, <3>4, <3>5, CancelledByReissue
  <2> QED
    BY <2>1, <2>4, <2>6, <2>7, <2>8, <2>9, StepKinds, FilesIs, ActivateIs DEF Commits
<1> QED
  BY <1>1, <1>2, BaseHolds, SignedHolds, PTL DEF Spec

\* When KRA has acknowledged everything and only invoices replace documents,
\* the iTax export of any number of documents adds up to what KRA holds: what
\* the export leaves out, the replaced invoices and the credit notes of them,
\* adds up to nothing.
THEOREM ExportMatchesKRAHolds == Spec => []ExportMatchesKRA
<1>1. Base /\ Signed /\ Offset => ExportMatchesKRA
  <2> SUFFICES ASSUME Base, Signed, Offset, Clean,
                      \A d \in DOMAIN docs : docs[d].state = "ACKED",
                      \A d \in DOMAIN docs : docs[d].by # NoDoc => docs[docs[d].by].kind = "INVOICE"
               PROVE  ExportItaxCSV(docs) = Declared(docs)
    BY DEF ExportMatchesKRA, Clean
  <2>1. PICK A : A = ListItaxReportRows(docs)
    OBVIOUS
  <2>2. PICK C : C = Corrected
    OBVIOUS
  <2>3. PICK g : g = [d \in DOMAIN docs |-> docs[d].total]
    OBVIOUS
  <2>4. A \in SUBSET DOMAIN docs /\ C \in SUBSET DOMAIN docs /\ A \cap C = {} /\ A \cup C = DOMAIN docs
    BY <2>1, <2>2 DEF ListItaxReportRows, Corrected
  <2>5. TypeOK
    BY DEF Base
  <2>6. /\ IsFiniteSet(A) /\ IsFiniteSet(C) /\ IsFiniteSet(DOMAIN docs)
        /\ \A d \in DOMAIN docs : docs[d].total \in Int
    BY <2>4, <2>5, RowsFinite
  <2>7. \A d \in DOMAIN docs : g[d] = docs[d].total /\ g[d] \in Int
    BY <2>3, <2>6
  <2>8. Declared(docs) = Total(g, DOMAIN docs)
    <3>1. {d \in DOMAIN docs : docs[d].state = "ACKED"} = DOMAIN docs
      OBVIOUS
    <3>2. Declared(docs) = TotalOver(docs, DOMAIN docs)
      BY <3>1 DEF Declared
    <3> QED
      BY <2>6, <2>7, <3>2, TotalOverIs
  <2>9. Total(g, C) = 0
    <3>1. TotalOver(docs, C) = Total(g, C)
      BY <2>4, <2>6, <2>7, TotalOverIs
    <3> QED
      BY <2>2, <3>1 DEF Offset, Cancelled
  <2>10. ExportItaxCSV(docs) = Total(g, A)
    <3>1. \A d \in A : docs[d].kind \in {"INVOICE", "CREDIT_NOTE"}
      BY <2>4, <2>5, Table DEF Doc
    <3>2. \A d \in A : g[d] = IF docs[d].kind = "CREDIT_NOTE" THEN -1 ELSE 1
      BY <2>4, <2>7, <3>1 DEF Signed
    <3> QED
      BY <2>1, <2>6, <3>2, ExportIs
  <2>11. Total(g, A \cup C) = Total(g, A) + Total(g, C)
    BY <2>4, <2>6, <2>7, TotalUnion
  <2>12. Total(g, A) \in Int
    BY <2>4, <2>6, <2>7, TotalIs, SumAnyOrder
  <2> QED
    BY <2>4, <2>8, <2>9, <2>10, <2>11, <2>12
<1> QED
  BY <1>1, BaseHolds, SignedHolds, OffsetHolds, PTL
=============================================================================
