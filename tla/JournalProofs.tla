---------------------------- MODULE JournalProofs ----------------------------
(***************************************************************************)
(* Theorems about Journal, for every set of drafts, amounts, openings and  *)
(* sessions.  Two arguments carry them.  A call that finds the header      *)
(* version it read finds the header and the lines it read, because every   *)
(* write of a line writes the header too.  And one edit cannot turn        *)
(* balanced lines into other balanced lines: it moves one positive amount, *)
(* so the CHECK on the header lets an edit that comes late onto a draft    *)
(* past "draft" only if it leaves both totals as they were.                *)
(***************************************************************************)
EXTENDS Journal, NaturalsInduction, WellFoundedInduction, TLAPS

-----------------------------------------------------------------------------
(* Sums                                                                    *)

\* Induction over the natural numbers, for a set of them: its complement has
\* no least element.
LEMMA Induction ==
  ASSUME NEW S, 0 \in S, \A n \in Nat : n \in S => n + 1 \in S
  PROVE  \A n \in Nat : n \in S
<1> SUFFICES ASSUME NEW T, T = {n \in Nat : n \notin S}, T # {}
             PROVE  FALSE
  OBVIOUS
<1>1. T \subseteq Nat
  OBVIOUS
<1>2. PICK m \in T : \A n \in T : ~(<<n, m>> \in OpToRel(<, Nat))
  BY <1>1, NatLessThanWellFounded, WFMin
<1>3. m \in Nat /\ m # 0 /\ m - 1 \in Nat /\ m - 1 < m /\ (m - 1) + 1 = m
  OBVIOUS
<1>4. <<m - 1, m>> \in OpToRel(<, Nat)
  BY <1>3 DEF OpToRel
<1>5. m - 1 \notin T
  BY <1>2, <1>4, Zenon
<1> QED BY <1>3, <1>5

\* The running sums of the amounts on one side.
Running(sum, ls, dir, m) ==
  sum = [n \in 0..m |-> IF n = 0 THEN 0 ELSE sum[n - 1] + Counted(ls[n], dir)]

\* Running sums exist for every length.
LEMMA RunningExists ==
  ASSUME NEW ls, NEW dir, NEW m \in Nat
  PROVE  \E sum : Running(sum, ls, dir, m)
<1> DEFINE S == {n \in Nat : \E sum : Running(sum, ls, dir, n)}
<1>1. 0 \in S
  <2>1. Running([n \in 0..0 |-> 0], ls, dir, 0)
    BY DEF Running
  <2> QED BY <2>1
<1>2. ASSUME NEW n \in Nat, n \in S
      PROVE  n + 1 \in S
  <2>1. PICK sum : Running(sum, ls, dir, n)
    BY <1>2
  <2> DEFINE more == [i \in 0..(n + 1) |-> IF i = n + 1 THEN sum[n] + Counted(ls[n + 1], dir)
                                           ELSE sum[i]]
  <2>2. sum = [i \in 0..n |-> IF i = 0 THEN 0 ELSE sum[i - 1] + Counted(ls[i], dir)]
    BY <2>1 DEF Running
  <2>3. ASSUME NEW i \in 0..(n + 1)
        PROVE  more[i] = IF i = 0 THEN 0 ELSE more[i - 1] + Counted(ls[i], dir)
    <3>1. CASE i = n + 1
      <4>1. i # 0 /\ i - 1 = n /\ n \in 0..(n + 1) /\ n # n + 1
        BY <3>1
      <4>2. more[n] = sum[n]
        BY <4>1
      <4> QED BY <3>1, <4>1, <4>2
    <3>2. CASE i \in 0..n
      <4>1. more[i] = sum[i]
        BY <3>2
      <4>2. i # 0 => i - 1 \in 0..n /\ i - 1 # n + 1 /\ i - 1 \in 0..(n + 1)
        BY <3>2
      <4>3. i # 0 => more[i - 1] = sum[i - 1]
        BY <4>2
      <4>4. sum[i] = IF i = 0 THEN 0 ELSE sum[i - 1] + Counted(ls[i], dir)
        BY <2>2, <3>2
      <4> QED BY <4>1, <4>3, <4>4
    <3> QED BY <3>1, <3>2
  <2>4. Running(more, ls, dir, n + 1)
    <3>1. more = [i \in 0..(n + 1) |-> more[i]]
      OBVIOUS
    <3> HIDE DEF more
    <3> QED BY <2>3, <3>1 DEF Running
  <2> HIDE DEF more
  <2> QED BY <2>4
<1> HIDE DEF S
<1>3. m \in S
  BY <1>1, <1>2, Induction
<1> QED BY <1>3 DEF S

\* What Total is: the last of the running sums of natural numbers.
LEMMA TotalUnfolds ==
  ASSUME NEW ls \in Seq(LineRows), NEW dir
  PROVE  \E sum \in [0..Len(ls) -> Nat] :
           /\ sum[0] = 0
           /\ \A n \in 1..Len(ls) : sum[n] = sum[n - 1] + Counted(ls[n], dir)
           /\ Total(ls, dir) = sum[Len(ls)]
<1> DEFINE sum == CHOOSE sum : Running(sum, ls, dir, Len(ls))
<1>0. Len(ls) \in Nat /\ \A n \in 1..Len(ls) : ls[n] \in LineRows
  OBVIOUS
<1>1. Running(sum, ls, dir, Len(ls))
  BY <1>0, RunningExists
<1>2. Total(ls, dir) = sum[Len(ls)]
  BY DEF Total, Running
<1> HIDE DEF sum
<1>3. /\ sum[0] = 0
      /\ \A n \in 1..Len(ls) : sum[n] = sum[n - 1] + Counted(ls[n], dir)
      /\ DOMAIN sum = 0..Len(ls) /\ sum = [n \in 0..Len(ls) |-> sum[n]]
  BY <1>0, <1>1 DEF Running
<1>4. \A n \in 1..Len(ls) : Counted(ls[n], dir) \in Nat
  BY <1>0, AmountsAssumption DEF Counted, LineRows
<1>5. \A n \in 0..Len(ls) : sum[n] \in Nat
  <2> DEFINE S == {n \in Nat : n <= Len(ls) => sum[n] \in Nat}
  <2>1. 0 \in S
    BY <1>3
  <2>2. ASSUME NEW n \in Nat, n \in S
        PROVE  n + 1 \in S
    <3> SUFFICES ASSUME n + 1 <= Len(ls) PROVE sum[n + 1] \in Nat
      OBVIOUS
    <3>1. sum[n] \in Nat /\ n + 1 \in 1..Len(ls) /\ (n + 1) - 1 = n
      BY <1>0, <2>2
    <3>2. sum[n + 1] = sum[n] + Counted(ls[n + 1], dir)
      BY <1>3, <3>1
    <3>3. Counted(ls[n + 1], dir) \in Nat
      BY <1>4, <3>1
    <3> QED BY <3>1, <3>2, <3>3
  <2> HIDE DEF S
  <2>3. \A n \in Nat : n \in S
    BY <2>1, <2>2, Induction
  <2> QED BY <1>0, <2>3 DEF S
<1>6. sum \in [0..Len(ls) -> Nat]
  BY <1>3, <1>5
<1> QED BY <1>2, <1>3, <1>6

\* The empty list sums to nothing.
LEMMA TotalOfNothing == ASSUME NEW dir PROVE Total(<<>>, dir) = 0
<1>1. <<>> \in Seq(LineRows) /\ Len(<<>>) = 0
  OBVIOUS
<1> QED BY <1>1, TotalUnfolds

\* A line that is added adds what it counts.
LEMMA TotalOfAppend ==
  ASSUME NEW ls \in Seq(LineRows), NEW e \in LineRows, NEW dir
  PROVE  /\ Total(ls, dir) \in Nat /\ Counted(e, dir) \in Nat
         /\ Total(Append(ls, e), dir) = Total(ls, dir) + Counted(e, dir)
<1> DEFINE more == Append(ls, e)
<1>1. /\ more \in Seq(LineRows) /\ Len(more) = Len(ls) + 1 /\ Len(ls) \in Nat
      /\ more[Len(ls) + 1] = e
      /\ \A n \in 1..Len(ls) : more[n] = ls[n]
  OBVIOUS
<1> HIDE DEF more
<1>2. PICK a \in [0..Len(ls) -> Nat] :
        /\ a[0] = 0
        /\ \A n \in 1..Len(ls) : a[n] = a[n - 1] + Counted(ls[n], dir)
        /\ Total(ls, dir) = a[Len(ls)]
  BY TotalUnfolds
<1>3. PICK b \in [0..Len(more) -> Nat] :
        /\ b[0] = 0
        /\ \A n \in 1..Len(more) : b[n] = b[n - 1] + Counted(more[n], dir)
        /\ Total(more, dir) = b[Len(more)]
  BY <1>1, TotalUnfolds
<1> DEFINE S == {n \in Nat : n <= Len(ls) => a[n] = b[n]}
<1>4. 0 \in S
  BY <1>2, <1>3
<1>5. ASSUME NEW n \in Nat, n \in S
      PROVE  n + 1 \in S
  <2> SUFFICES ASSUME n + 1 <= Len(ls) PROVE a[n + 1] = b[n + 1]
    OBVIOUS
  <2>1. a[n] = b[n] /\ n + 1 \in 1..Len(ls) /\ n + 1 \in 1..Len(more) /\ (n + 1) - 1 = n
    BY <1>1, <1>5
  <2>2. a[n + 1] = a[n] + Counted(ls[n + 1], dir)
    BY <1>2, <2>1
  <2>3. b[n + 1] = b[n] + Counted(more[n + 1], dir)
    BY <1>3, <2>1
  <2> QED BY <1>1, <2>1, <2>2, <2>3
<1>6. a[Len(ls)] = b[Len(ls)]
  <2> HIDE DEF S
  <2>1. Len(ls) \in S
    BY <1>1, <1>4, <1>5, Induction
  <2> QED BY <1>1, <2>1 DEF S
<1>7. b[Len(ls) + 1] = b[Len(ls)] + Counted(e, dir)
  <2>1. Len(ls) + 1 \in 1..Len(more) /\ (Len(ls) + 1) - 1 = Len(ls)
    BY <1>1
  <2> QED BY <1>1, <1>3, <2>1
<1>8. Counted(e, dir) \in Nat
  BY AmountsAssumption DEF Counted, LineRows
<1> QED BY <1>1, <1>2, <1>3, <1>6, <1>7, <1>8 DEF more

\* A line that is replaced takes away what it counted.
LEMMA TotalOfExcept ==
  ASSUME NEW ls \in Seq(LineRows), NEW k \in 1..Len(ls), NEW e \in LineRows, NEW dir
  PROVE  /\ Total(ls, dir) \in Nat /\ Counted(e, dir) \in Nat /\ Counted(ls[k], dir) \in Nat
         /\ Total([ls EXCEPT ![k] = e], dir) \in Nat
         /\ Total([ls EXCEPT ![k] = e], dir) + Counted(ls[k], dir)
              = Total(ls, dir) + Counted(e, dir)
<1> DEFINE new == [ls EXCEPT ![k] = e]
<1>1. /\ new \in Seq(LineRows) /\ Len(new) = Len(ls) /\ Len(ls) \in Nat
      /\ new[k] = e /\ \A n \in 1..Len(ls) : n # k => new[n] = ls[n]
      /\ \A n \in 1..Len(ls) : ls[n] \in LineRows
  OBVIOUS
<1> HIDE DEF new
<1>2. PICK a \in [0..Len(ls) -> Nat] :
        /\ a[0] = 0
        /\ \A n \in 1..Len(ls) : a[n] = a[n - 1] + Counted(ls[n], dir)
        /\ Total(ls, dir) = a[Len(ls)]
  BY TotalUnfolds
<1>3. PICK b \in [0..Len(ls) -> Nat] :
        /\ b[0] = 0
        /\ \A n \in 1..Len(ls) : b[n] = b[n - 1] + Counted(new[n], dir)
        /\ Total(new, dir) = b[Len(ls)]
  BY <1>1, TotalUnfolds
<1>4. \A n \in 1..Len(ls) : Counted(ls[n], dir) \in Nat
  BY <1>1, AmountsAssumption DEF Counted, LineRows
<1>5. Counted(e, dir) \in Nat
  BY AmountsAssumption DEF Counted, LineRows
<1> DEFINE S == {n \in Nat : n <= Len(ls) =>
                   IF n < k THEN a[n] = b[n]
                   ELSE b[n] + Counted(ls[k], dir) = a[n] + Counted(e, dir)}
<1>6. 0 \in S
  BY <1>2, <1>3
<1>7. ASSUME NEW n \in Nat, n \in S
      PROVE  n + 1 \in S
  <2> SUFFICES ASSUME n + 1 <= Len(ls)
               PROVE  IF n + 1 < k THEN a[n + 1] = b[n + 1]
                      ELSE b[n + 1] + Counted(ls[k], dir) = a[n + 1] + Counted(e, dir)
    OBVIOUS
  <2>1. /\ n + 1 \in 1..Len(ls) /\ (n + 1) - 1 = n /\ n \in 0..Len(ls)
        /\ IF n < k THEN a[n] = b[n]
           ELSE b[n] + Counted(ls[k], dir) = a[n] + Counted(e, dir)
    BY <1>1, <1>7
  <2>2. a[n + 1] = a[n] + Counted(ls[n + 1], dir) /\ a[n] \in Nat /\ a[n + 1] \in Nat
    BY <1>2, <2>1, SMTT(30)
  <2>3. b[n + 1] = b[n] + Counted(new[n + 1], dir) /\ b[n] \in Nat /\ b[n + 1] \in Nat
    <3>1. b[n + 1] = b[(n + 1) - 1] + Counted(new[n + 1], dir)
      BY <1>3, <2>1, Zenon
    <3>2. b[n] \in Nat /\ b[n + 1] \in Nat
      BY <2>1
    <3> QED BY <2>1, <3>1, <3>2
  <2>4. Counted(ls[n + 1], dir) \in Nat /\ Counted(ls[k], dir) \in Nat
    BY <1>4, <2>1
  <2>5. CASE n + 1 # k
    <3>1. new[n + 1] = ls[n + 1]
      BY <1>1, <2>1, <2>5
    <3>2. (n + 1 < k) <=> (n < k)
      BY <2>5
    <3>3. a[n + 1] = a[n] + Counted(ls[n + 1], dir) /\ b[n + 1] = b[n] + Counted(ls[n + 1], dir)
      BY <2>2, <2>3, <3>1
    <3> HIDE DEF S
    <3>4. CASE n < k
      BY <2>1, <3>2, <3>3, <3>4
    <3>5. CASE ~(n < k)
      <4>1. b[n] + Counted(ls[k], dir) = a[n] + Counted(e, dir)
        BY <2>1, <3>5
      <4>2. (b[n] + Counted(ls[n + 1], dir)) + Counted(ls[k], dir)
              = (a[n] + Counted(ls[n + 1], dir)) + Counted(e, dir)
        <5> DEFINE x == Counted(ls[n + 1], dir)
                   old == Counted(ls[k], dir)
                   here == Counted(e, dir)
                   p == a[n]
                   q == b[n]
        <5>1. x \in Nat /\ old \in Nat /\ here \in Nat /\ p \in Nat /\ q \in Nat /\ q + old = p + here
          BY <1>5, <2>2, <2>3, <2>4, <4>1
        <5> HIDE DEF x, old, here, p, q
        <5>2. (q + x) + old = (p + x) + here
          BY <5>1
        <5> QED BY <5>2 DEF x, old, here, p, q
      <4>3. b[n + 1] + Counted(ls[k], dir) = a[n + 1] + Counted(e, dir)
        BY <3>3, <4>2
      <4> QED BY <3>2, <3>5, <4>3
    <3> QED BY <3>4, <3>5
  <2>6. CASE n + 1 = k
    <3>1. new[n + 1] = e /\ n < k /\ ~(n + 1 < k)
      BY <1>1, <2>6
    <3> HIDE DEF S
    <3> QED BY <1>5, <2>1, <2>2, <2>3, <2>4, <2>6, <3>1, SMTT(30)
  <2> QED BY <2>5, <2>6
<1>8. b[Len(ls)] + Counted(ls[k], dir) = a[Len(ls)] + Counted(e, dir)
  <2> HIDE DEF S
  <2>1. Len(ls) \in S
    BY <1>1, <1>6, <1>7, Induction
  <2> QED BY <1>1, <2>1 DEF S
<1> QED BY <1>1, <1>2, <1>3, <1>4, <1>5, <1>8 DEF new

Balanced(ls) == Total(ls, "debit") = Total(ls, "credit")
TotalsAre(debits, credits, ls) ==
  debits = Total(ls, "debit") /\ credits = Total(ls, "credit")

\* One added line cannot lead from a balance to another.
LEMMA BalanceOfAppend ==
  ASSUME NEW ls \in Seq(LineRows), NEW e \in LineRows,
         Balanced(ls), Balanced(Append(ls, e))
  PROVE  /\ TotalsAre(Total(ls, "debit"), Total(ls, "credit"), Append(ls, e))
         /\ ActiveLines(ls) # {} => ActiveLines(Append(ls, e)) # {}
<1>1. /\ Total(ls, "debit") \in Nat /\ Total(ls, "credit") \in Nat
      /\ Counted(e, "debit") \in Nat /\ Counted(e, "credit") \in Nat
      /\ Total(Append(ls, e), "debit") = Total(ls, "debit") + Counted(e, "debit")
      /\ Total(Append(ls, e), "credit") = Total(ls, "credit") + Counted(e, "credit")
  BY TotalOfAppend
<1>2. Counted(e, "debit") = 0 \/ Counted(e, "credit") = 0
  BY DEF Counted
<1>3. TotalsAre(Total(ls, "debit"), Total(ls, "credit"), Append(ls, e))
  BY <1>1, <1>2 DEF Balanced, TotalsAre
<1>4. ASSUME NEW n \in ActiveLines(ls) PROVE n \in ActiveLines(Append(ls, e))
  BY DEF ActiveLines
<1> QED BY <1>3, <1>4

\* Nor can one replaced line.
LEMMA BalanceOfExcept ==
  ASSUME NEW ls \in Seq(LineRows), NEW k \in 1..Len(ls), NEW e \in LineRows,
         Balanced(ls), Balanced([ls EXCEPT ![k] = e])
  PROVE  /\ TotalsAre(Total(ls, "debit"), Total(ls, "credit"), [ls EXCEPT ![k] = e])
         /\ ActiveLines(ls) # {} => ActiveLines([ls EXCEPT ![k] = e]) # {}
<1> DEFINE new == [ls EXCEPT ![k] = e]
<1>1. /\ Total(ls, "debit") \in Nat /\ Total(ls, "credit") \in Nat
      /\ Counted(e, "debit") \in Nat /\ Counted(e, "credit") \in Nat
      /\ Counted(ls[k], "debit") \in Nat /\ Counted(ls[k], "credit") \in Nat
      /\ Total(new, "debit") \in Nat /\ Total(new, "credit") \in Nat
      /\ Total(new, "debit") + Counted(ls[k], "debit") = Total(ls, "debit") + Counted(e, "debit")
      /\ Total(new, "credit") + Counted(ls[k], "credit") = Total(ls, "credit") + Counted(e, "credit")
  BY TotalOfExcept
<1>2. /\ new[k] = e /\ DOMAIN new = DOMAIN ls /\ \A n \in DOMAIN ls : n # k => new[n] = ls[n]
      /\ k \in DOMAIN ls /\ ls[k] \in LineRows
  OBVIOUS
<1>3. Balanced(ls) /\ Balanced(new)
  OBVIOUS
<1> HIDE DEF new
<1>4. ASSUME NEW l \in LineRows
      PROVE  /\ l.status = "active" => \/ Counted(l, "debit") > 0 /\ Counted(l, "credit") = 0
                                       \/ Counted(l, "debit") = 0 /\ Counted(l, "credit") > 0
             /\ l.status # "active" => Counted(l, "debit") = 0 /\ Counted(l, "credit") = 0
  <2>1. l.amount \in Amounts /\ (l.dir = "debit" \/ l.dir = "credit")
    BY DEF LineRows, Directions
  <2>2. l.amount \in Nat /\ l.amount > 0
    <3>1. l.amount \in Nat \ {0}
      BY <2>1, AmountsAssumption, Zenon
    <3> QED BY <3>1
  <2> QED BY <2>1, <2>2 DEF Counted
<1>5. CASE e.status = "active"
  <2>1. k \in ActiveLines(new)
    BY <1>2, <1>5 DEF ActiveLines
  <2>2. \/ Counted(e, "debit") > 0 /\ Counted(e, "credit") = 0
        \/ Counted(e, "debit") = 0 /\ Counted(e, "credit") > 0
    BY <1>4, <1>5
  <2>4. Counted(ls[k], "debit") = 0 \/ Counted(ls[k], "credit") = 0
    BY <1>2, <1>4
  <2> DEFINE D == Total(ls, "debit")     C == Total(ls, "credit")
             D2 == Total(new, "debit")   C2 == Total(new, "credit")
             d == Counted(ls[k], "debit") c == Counted(ls[k], "credit")
             d2 == Counted(e, "debit")   c2 == Counted(e, "credit")
  <2>5. /\ D \in Nat /\ C \in Nat /\ D2 \in Nat /\ C2 \in Nat
        /\ d \in Nat /\ c \in Nat /\ d2 \in Nat /\ c2 \in Nat
        /\ D = C /\ D2 = C2 /\ D2 + d = D + d2 /\ C2 + c = C + c2
        /\ d = 0 \/ c = 0
        /\ (d2 > 0 /\ c2 = 0) \/ (d2 = 0 /\ c2 > 0)
    BY <1>1, <1>3, <2>2, <2>4 DEF Balanced
  <2> HIDE DEF D, C, D2, C2, d, c, d2, c2
  <2>6. D = D2 /\ C = C2
    BY <2>5
  <2>7. TotalsAre(Total(ls, "debit"), Total(ls, "credit"), new)
    BY <2>6 DEF TotalsAre, D, C, D2, C2
  <2> QED BY <2>1, <2>7 DEF new
<1>6. CASE e.status # "active"
  <2>1. Counted(e, "debit") = 0 /\ Counted(e, "credit") = 0
    BY <1>4, <1>6
  <2>2. Total(new, "debit") + Counted(ls[k], "debit") = Total(ls, "debit")
        /\ Total(new, "credit") + Counted(ls[k], "credit") = Total(ls, "credit")
    BY <1>1, <2>1
  <2>3. Counted(ls[k], "debit") = Counted(ls[k], "credit")
    <3> DEFINE D == Total(ls, "debit")     C == Total(ls, "credit")
               D2 == Total(new, "debit")   C2 == Total(new, "credit")
               d == Counted(ls[k], "debit") c == Counted(ls[k], "credit")
    <3>1. /\ D \in Nat /\ D2 \in Nat /\ d \in Nat /\ c \in Nat
          /\ D = C /\ D2 = C2 /\ D2 + d = D /\ C2 + c = C
      BY <1>1, <1>3, <2>2 DEF Balanced
    <3> HIDE DEF D, C, D2, C2, d, c
    <3>2. d = c
      BY <3>1
    <3> QED BY <3>2 DEF d, c
  <2>4. ls[k].status # "active"
    BY <1>2, <1>4, <2>3
  <2>5. Counted(ls[k], "debit") = 0 /\ Counted(ls[k], "credit") = 0
    BY <1>2, <1>4, <2>4
  <2>6. TotalsAre(Total(ls, "debit"), Total(ls, "credit"), new)
    BY <1>1, <2>2, <2>5 DEF TotalsAre
  <2>7. ASSUME NEW n \in ActiveLines(ls) PROVE n \in ActiveLines(new)
    BY <1>2, <2>4 DEF ActiveLines
  <2> QED BY <2>6, <2>7 DEF new
<1> QED BY <1>5, <1>6

-----------------------------------------------------------------------------
(* The invariant                                                           *)

Drafting == Edits \cup {"validate"}

\* The header agrees with the lines; past "draft" it balances, and past
\* validation there is a line.
DraftFits(row, ls) ==
  /\ row.status = "none" => ls = <<>>
  /\ TotalsAre(row.debits, row.credits, ls)
  /\ row.status \notin {"none", "draft"} => row.debits = row.credits
  /\ row.status \in {"validated", "submitted", "posted"} => ActiveLines(ls) # {}

\* An open edit holds a header not newer than the row, and the row itself if
\* the versions agree; a line it replaces is active if its version agrees; and
\* what it summed is still the sum if the header has not moved.
EditFits(t, row, ls) ==
  /\ row.status # "none"
  /\ t.old.version <= row.version
  /\ t.old.version = row.version => t.old = row
  /\ t.reverts => t.old.status = "validated"
  /\ t.op # "add" =>
       /\ t.no \in DOMAIN ls
       /\ t.line.version <= ls[t.no].version + 1
       /\ t.line.version = ls[t.no].version + 1 => ls[t.no].status = "active"
  /\ t.at = "summed" /\ t.old.version = row.version =>
       TotalsAre(t.debits, t.credits,
                 IF t.op = "add" THEN Append(ls, t.line) ELSE [ls EXCEPT ![t.no] = t.line])

\* An open validation that found no error found lines that balance, and they
\* are still there if the header has not moved.
ValidateFits(t, row, ls) ==
  /\ row.status # "none"
  /\ t.old.version <= row.version
  /\ t.old.version = row.version => t.old = row
  /\ t.at = "checked" /\ t.valid /\ t.old.version = row.version => ActiveLines(ls) # {}

CallFits(t, row, ls) ==
  /\ t.op \in Edits => t \in EditCalls /\ EditFits(t, row, ls)
  /\ t.op = "validate" => t \in ValidateCalls /\ ValidateFits(t, row, ls)

JInv ==
  /\ draft \in [Drafts -> DraftRows]
  /\ lines \in [Drafts -> Seq(LineRows)]
  /\ tx = [s \in Sessions |-> tx[s]]
  /\ \A d \in Drafts : DraftFits(draft[d], lines[d])
  /\ \A s \in Sessions : CallFits(tx[s], draft[tx[s].draft], lines[tx[s].draft])

\* The header moves on, and each line stays or goes one version further.
RowAdvances(row, ls, row2, ls2) ==
  /\ row2.status # "none"
  /\ row2.version > row.version
  /\ \A n \in DOMAIN ls : n \in DOMAIN ls2
       /\ (ls2[n] = ls[n] \/ ls2[n].version = ls[n].version + 1)

\* Which leaves the other calls of the draft as they were: none of them can
\* swap its header now.
LEMMA CallSurvives ==
  ASSUME NEW t, NEW row \in DraftRows, NEW row2 \in DraftRows,
         NEW ls \in Seq(LineRows), NEW ls2 \in Seq(LineRows),
         CallFits(t, row, ls), RowAdvances(row, ls, row2, ls2)
  PROVE  CallFits(t, row2, ls2)
<1>0. row.version \in Nat /\ row2.version \in Nat /\ row2.version > row.version
  BY DEF DraftRows, RowAdvances
<1>1. ASSUME t \in EditCalls, EditFits(t, row, ls)
      PROVE  EditFits(t, row2, ls2)
  <2>1. t.old.version \in Nat /\ t.line.version \in Nat
    BY <1>1 DEF EditCalls, DraftRows, LineRows
  <2>2. t.old.version < row2.version
    BY <1>0, <1>1, <2>1 DEF EditFits
  <2>3. ASSUME t.op # "add"
        PROVE  /\ t.no \in DOMAIN ls2
               /\ t.line.version <= ls2[t.no].version + 1
               /\ t.line.version = ls2[t.no].version + 1 => ls2[t.no].status = "active"
    <3>1. /\ t.no \in DOMAIN ls /\ t.line.version <= ls[t.no].version + 1
          /\ t.line.version = ls[t.no].version + 1 => ls[t.no].status = "active"
      BY <1>1, <2>3 DEF EditFits
    <3>2. ls[t.no] \in LineRows
      BY <3>1
    <3>3. ls[t.no].version \in Nat
      BY <3>2 DEF LineRows
    <3>4. t.no \in DOMAIN ls2
          /\ (ls2[t.no] = ls[t.no] \/ ls2[t.no].version = ls[t.no].version + 1)
      BY <3>1 DEF RowAdvances
    <3> QED BY <2>1, <3>1, <3>3, <3>4, SMTT(30)
  <2> QED BY <1>0, <1>1, <2>1, <2>2, <2>3 DEF EditFits, RowAdvances
<1>2. ASSUME t \in ValidateCalls, ValidateFits(t, row, ls)
      PROVE  ValidateFits(t, row2, ls2)
  <2>1. t.old.version \in Nat
    BY <1>2 DEF ValidateCalls, DraftRows
  <2> QED BY <1>0, <1>2, <2>1 DEF ValidateFits, RowAdvances
<1> QED BY <1>1, <1>2 DEF CallFits

\* A step that leaves the tables alone and opens, moves or ends one call.
LEMMA QuietKeeps ==
  ASSUME JInv, NEW s \in Sessions, NEW t, tx' = [tx EXCEPT ![s] = t],
         CallFits(t, draft[t.draft], lines[t.draft]), draft' = draft, lines' = lines
  PROVE  JInv'
<1>1. \A r \in Sessions : tx'[r] = IF r = s THEN t ELSE tx[r]
  BY DEF JInv
<1>2. tx' = [r \in Sessions |-> tx'[r]]
  BY DEF JInv
<1>3. ASSUME NEW r \in Sessions
      PROVE  CallFits(tx'[r], draft'[tx'[r].draft], lines'[tx'[r].draft])
  <2>1. CASE r = s
    BY <1>1, <2>1
  <2>2. CASE r # s
    BY <1>1, <2>2 DEF JInv
  <2> QED BY <2>1, <2>2
<1>4. ASSUME NEW d \in Drafts PROVE DraftFits(draft'[d], lines'[d])
  BY DEF JInv
<1>5. draft' \in [Drafts -> DraftRows] /\ lines' \in [Drafts -> Seq(LineRows)]
  BY DEF JInv
<1> QED BY <1>2, <1>3, <1>4, <1>5 DEF JInv, CallFits, EditFits, ValidateFits

\* A step that writes one draft, and may end a call.
LEMMA WriteKeeps ==
  ASSUME JInv, NEW d \in Drafts, NEW row \in DraftRows, NEW ls \in Seq(LineRows),
         draft' = [draft EXCEPT ![d] = row], lines' = [lines EXCEPT ![d] = ls],
         DraftFits(row, ls),
         draft[d].status = "none" \/ RowAdvances(draft[d], lines[d], row, ls),
         tx' = [s \in Sessions |-> tx'[s]],
         \A s \in Sessions : tx'[s] = tx[s] \/ tx'[s].op \notin Drafting
  PROVE  JInv'
<1>1. draft' \in [Drafts -> DraftRows] /\ lines' \in [Drafts -> Seq(LineRows)]
  BY DEF JInv
<1>2. /\ draft'[d] = row /\ lines'[d] = ls
      /\ \A e : e # d => draft'[e] = draft[e] /\ lines'[e] = lines[e]
  <2>1. draft'[d] = row /\ lines'[d] = ls
    BY DEF JInv
  <2>2. ASSUME NEW e, e # d
        PROVE  draft'[e] = draft[e] /\ lines'[e] = lines[e]
    <3>1. CASE e \in Drafts
      BY <2>2, <3>1 DEF JInv
    <3>2. CASE e \notin Drafts
      BY <2>2, <3>2 DEF JInv
    <3> QED BY <3>1, <3>2
  <2> QED BY <2>1, <2>2
<1>3. ASSUME NEW e \in Drafts PROVE DraftFits(draft'[e], lines'[e])
  BY <1>2 DEF JInv
<1>4. ASSUME NEW s \in Sessions
      PROVE  CallFits(tx'[s], draft'[tx'[s].draft], lines'[tx'[s].draft])
  <2>1. CASE tx'[s].op \notin Drafting
    BY <2>1 DEF CallFits, Drafting
  <2>2. CASE tx'[s] = tx[s]
    <3>1. CallFits(tx[s], draft[tx[s].draft], lines[tx[s].draft])
      BY DEF JInv
    <3>2. CASE tx[s].draft # d
      BY <1>2, <2>2, <3>1, <3>2
    <3>3. CASE tx[s].draft = d /\ tx[s].op \in Drafting
      <4>1. draft[d].status # "none"
        BY <3>1, <3>3 DEF CallFits, EditFits, ValidateFits, Drafting
      <4>2. draft[d] \in DraftRows /\ lines[d] \in Seq(LineRows)
        BY DEF JInv
      <4>3. CallFits(tx[s], row, ls)
        BY <3>1, <3>3, <4>1, <4>2, CallSurvives
      <4> QED BY <1>2, <2>2, <3>3, <4>3
    <3>4. CASE tx[s].op \notin Drafting
      BY <2>2, <3>4 DEF CallFits, Drafting
    <3> QED BY <3>2, <3>3, <3>4
  <2> QED BY <2>1, <2>2
<1> QED BY <1>1, <1>3, <1>4 DEF JInv, CallFits, EditFits, ValidateFits

\* Ending a call.
LEMMA FinishShape ==
  ASSUME JInv, NEW s \in Sessions, Finish(s)
  PROVE  /\ tx' = [r \in Sessions |-> tx'[r]]
         /\ \A r \in Sessions : tx'[r] = tx[r] \/ tx'[r].op \notin Drafting
BY DEF JInv, Finish, Idle, Drafting, Edits

\* Write bumps the version and stores a row the CHECK allows.
LEMMA WriteEffect ==
  ASSUME NEW d \in Drafts, NEW row \in DraftRows, row.status # "none", Write(d, row)
  PROVE  \E row2 \in DraftRows :
           /\ draft' = [draft EXCEPT ![d] = row2]
           /\ row2.version = row.version + 1 /\ row2.status = row.status
           /\ row2.debits = row.debits /\ row2.credits = row.credits
           /\ row2.status \notin {"none", "draft"} => row2.debits = row2.credits
<1> DEFINE row2 == [row EXCEPT !.version = @ + 1]
<1>1. row2 \in DraftRows /\ row2.version = row.version + 1 /\ row2.status = row.status
      /\ row2.debits = row.debits /\ row2.credits = row.credits
  BY DEF DraftRows
<1>2. draft' = [draft EXCEPT ![d] = row2] /\ RowAllowed(row)
  BY DEF Write
<1> HIDE DEF row2
<1> QED BY <1>1, <1>2 DEF RowAllowed

-----------------------------------------------------------------------------
(* The steps                                                               *)

\* Before anything happened.
LEMMA JournalInitFits == ASSUME JournalInit PROVE JInv
<1>1. NoDraft \in DraftRows
  BY DEF NoDraft, DraftRows, Periods
<1>2. DraftFits(NoDraft, <<>>)
  BY TotalOfNothing DEF NoDraft, DraftFits, TotalsAre
<1>3. \A s \in Sessions : tx[s] = Idle
  BY DEF JournalInit
<1>4. \A s \in Sessions : tx[s].op \notin Drafting
  BY <1>3 DEF Idle, Drafting, Edits
<1> QED BY <1>1, <1>2, <1>4 DEF JournalInit, JInv, CallFits, Drafting

\* Sums are natural numbers.
LEMMA TotalIsNatural ==
  ASSUME NEW ls \in Seq(LineRows), NEW dir
  PROVE  Total(ls, dir) \in Nat
<1>1. Len(ls) \in Nat
  OBVIOUS
<1> QED BY <1>1, TotalUnfolds

\* The lines a draft is created with.
LEMMA CreateKeeps ==
  ASSUME JInv, NEW d \in Drafts, NEW opening \in Openings, NEW period \in Periods,
         NEW currency \in Currencies \cup {NoCurrency},
         CreateDraft(d, opening, period, currency)
  PROVE  JInv'
<1> DEFINE ls == [n \in DOMAIN opening |-> NewLine(opening[n])]
           row == [status |-> "draft", version |-> IF ls = <<>> THEN 1 ELSE 2,
                   period |-> period, currency |-> currency,
                   debits |-> Total(ls, "debit"), credits |-> Total(ls, "credit")]
<1>1. opening \in Seq(LineInputs)
  BY OpeningsAssumption
<1>2. \A i \in LineInputs : NewLine(i) \in LineRows
  BY DEF LineInputs, NewLine, LineRows
<1>3. ls \in Seq(LineRows)
  BY <1>1, <1>2
<1>4. Total(ls, "debit") \in Nat /\ Total(ls, "credit") \in Nat
  BY <1>3, TotalIsNatural
<1>5. /\ draft[d].status = "none"
      /\ lines' = [lines EXCEPT ![d] = ls] /\ draft' = [draft EXCEPT ![d] = row]
      /\ tx' = tx
  BY DEF CreateDraft
<1> HIDE DEF ls
<1>6. row \in DraftRows
  BY <1>4 DEF DraftRows, DraftStatuses
<1>7. DraftFits(row, ls)
  BY DEF DraftFits, TotalsAre
<1> HIDE DEF row
<1>8. tx' = [s \in Sessions |-> tx'[s]] /\ \A s \in Sessions : tx'[s] = tx[s]
  BY <1>5 DEF JInv
<1> QED BY <1>3, <1>5, <1>6, <1>7, <1>8, WriteKeeps

\* An edit that begins.
LEMMA BeginEditKeeps ==
  ASSUME JInv, NEW s \in Sessions, NEW d \in Drafts, NEW op \in Edits, NEW no \in Nat,
         NEW line \in LineRows, BeginEdit(s, d, op, no, line),
         op # "add" => /\ no \in DOMAIN lines[d] /\ lines[d][no].status = "active"
                       /\ line.version = lines[d][no].version + 1
  PROVE  JInv'
<1> DEFINE t == [op |-> op, at |-> "begun", draft |-> d, old |-> draft[d],
                 reverts |-> draft[d].status = "validated", no |-> no, line |-> line,
                 debits |-> 0, credits |-> 0]
<1>1. draft[d] \in DraftRows /\ lines[d] \in Seq(LineRows)
  BY DEF JInv
<1>2. t \in EditCalls
  BY <1>1 DEF EditCalls
<1>3. draft[d].status # "none" /\ draft[d].version \in Nat /\ line.version \in Nat
  BY <1>1 DEF BeginEdit, Editable, DraftRows, LineRows
<1>4. t.op = op /\ t.at = "begun" /\ t.draft = d /\ t.old = draft[d] /\ t.no = no /\ t.line = line
      /\ (t.reverts => draft[d].status = "validated")
  OBVIOUS
<1>5. draft' = draft /\ lines' = lines /\ tx' = [tx EXCEPT ![s] = t]
  BY DEF BeginEdit, Open
<1> HIDE DEF t
<1>6. EditFits(t, draft[d], lines[d])
  BY <1>3, <1>4 DEF EditFits
<1>7. CallFits(t, draft[t.draft], lines[t.draft])
  BY <1>2, <1>4, <1>6 DEF CallFits, Edits
<1> QED BY <1>5, <1>7, QuietKeeps

\* A line edit that begins has read the header and the lines there are.
LEMMA EditBeginsKeep ==
  ASSUME JInv, NEW s \in Sessions, NEW d \in Drafts
  PROVE  /\ \A input \in LineInputs : BeginAdd(s, d, input) => JInv'
         /\ \A input \in LineInputs, no \in DOMAIN lines[d] : BeginUpdate(s, d, no, input) => JInv'
         /\ \A no \in DOMAIN lines[d] : BeginRemove(s, d, no) => JInv'
<1>1. \A i \in LineInputs : NewLine(i) \in LineRows /\ NewLine(i).version = 1
  BY DEF LineInputs, NewLine, LineRows
<1>2. lines[d] \in Seq(LineRows)
  BY DEF JInv
<1>3. \A no \in DOMAIN lines[d] : no \in Nat /\ lines[d][no] \in LineRows
  BY <1>2
<1>4. ASSUME NEW input \in LineInputs, BeginAdd(s, d, input) PROVE JInv'
  <2>1. BeginEdit(s, d, "add", 0, NewLine(input)) /\ NewLine(input) \in LineRows
    BY <1>1, <1>4 DEF BeginAdd
  <2>2. "add" \in Edits /\ 0 \in Nat
    BY DEF Edits
  <2> QED BY <2>1, <2>2, BeginEditKeeps
<1>5. ASSUME NEW input \in LineInputs, NEW no \in DOMAIN lines[d], BeginUpdate(s, d, no, input)
      PROVE  JInv'
  <2> DEFINE line == [NewLine(input) EXCEPT !.version = lines[d][no].version + 1]
  <2>1. line \in LineRows /\ line.version = lines[d][no].version + 1
    BY <1>1, <1>3 DEF LineRows
  <2>2. BeginEdit(s, d, "update", no, line) /\ lines[d][no].status = "active"
    BY <1>5 DEF BeginUpdate
  <2> HIDE DEF line
  <2>3. "update" \in Edits /\ no \in Nat
    BY <1>3 DEF Edits
  <2> QED BY <2>1, <2>2, <2>3, BeginEditKeeps
<1>6. ASSUME NEW no \in DOMAIN lines[d], BeginRemove(s, d, no)
      PROVE  JInv'
  <2> DEFINE line == [lines[d][no] EXCEPT !.status = "removed", !.version = @ + 1]
  <2>1. line \in LineRows /\ line.version = lines[d][no].version + 1
    <3> DEFINE old == lines[d][no]
    <3>1. old \in LineRows
      BY <1>3
    <3> HIDE DEF old
    <3> DEFINE v == old.version + 1
    <3>2. v \in Nat
      BY <3>1 DEF LineRows
    <3>3. line = [old EXCEPT !.status = "removed", !.version = v]
      BY <3>1 DEF old
    <3> HIDE DEF v, line
    <3>4. line \in LineRows /\ line.version = v
      BY <3>1, <3>2, <3>3 DEF LineRows
    <3> QED BY <3>4 DEF old, v
  <2>2. BeginEdit(s, d, "remove", no, line) /\ lines[d][no].status = "active"
    BY <1>6 DEF BeginRemove
  <2> HIDE DEF line
  <2>3. "remove" \in Edits /\ no \in Nat
    BY <1>3 DEF Edits
  <2> QED BY <2>1, <2>2, <2>3, BeginEditKeeps
<1> QED BY <1>4, <1>5, <1>6

\* What an open edit is known to be.
LEMMA EditKnown ==
  ASSUME JInv, NEW s \in Sessions, tx[s].op \in Edits
  PROVE  /\ tx[s] \in EditCalls /\ tx[s].draft \in Drafts
         /\ draft[tx[s].draft] \in DraftRows /\ lines[tx[s].draft] \in Seq(LineRows)
         /\ EditFits(tx[s], draft[tx[s].draft], lines[tx[s].draft])
         /\ DraftFits(draft[tx[s].draft], lines[tx[s].draft])
<1>1. tx[s] \in EditCalls /\ EditFits(tx[s], draft[tx[s].draft], lines[tx[s].draft])
  BY DEF JInv, CallFits
<1>2. tx[s].draft \in Drafts
  BY <1>1 DEF EditCalls
<1> QED BY <1>1, <1>2 DEF JInv

\* The header is read again; a call that reverts keeps the one it holds.
LEMMA WriteLineKeeps ==
  ASSUME JInv, NEW s \in Sessions, WriteLine(s)
  PROVE  JInv'
<1> DEFINE t == tx[s]
           d == t.draft
           c == [t EXCEPT !.at = "written", !.old = IF t.reverts THEN @ ELSE draft[t.draft],
                          !.no = IF t.op = "add" THEN Len(lines[t.draft]) + 1 ELSE @]
<1>1. /\ t \in EditCalls /\ d \in Drafts /\ draft[d] \in DraftRows /\ lines[d] \in Seq(LineRows)
      /\ EditFits(t, draft[d], lines[d])
  BY EditKnown DEF WriteLine
<1>2. draft' = draft /\ lines' = lines /\ tx' = [tx EXCEPT ![s] = c] /\ t.op \in Edits
  BY DEF WriteLine, Step
<1> HIDE DEF t
<1>3. /\ c.op = t.op /\ c.at = "written" /\ c.draft = d /\ c.reverts = t.reverts
      /\ c.old = (IF t.reverts THEN t.old ELSE draft[d])
      /\ t.op # "add" => c.no = t.no
      /\ c.line = t.line
      /\ c \in EditCalls
  <2>1. Len(lines[d]) + 1 \in Nat
    BY <1>1
  <2> QED BY <1>1, <2>1 DEF EditCalls
<1> HIDE DEF c
<1>4. draft[d].version \in Nat
  BY <1>1 DEF DraftRows
<1>5. EditFits(c, draft[d], lines[d])
  BY <1>1, <1>3, <1>4 DEF EditFits
<1>6. CallFits(c, draft[c.draft], lines[c.draft])
  BY <1>2, <1>3, <1>5 DEF CallFits, Edits
<1> HIDE DEF d
<1> QED BY <1>2, <1>6, QuietKeeps

\* Where a line lands, the list that results is one of rows, the other lines
\* stay, and the line that lands was active.
LEMMA LineEffect ==
  ASSUME JInv, NEW s \in Sessions, tx[s].op \in Edits, LineLands(tx[s])
  PROVE  /\ Edited(tx[s]) \in Seq(LineRows)
         /\ \A n \in DOMAIN lines[tx[s].draft] :
              /\ n \in DOMAIN Edited(tx[s])
              /\ \/ Edited(tx[s])[n] = lines[tx[s].draft][n]
                 \/ /\ Edited(tx[s])[n].version = lines[tx[s].draft][n].version + 1
                    /\ lines[tx[s].draft][n].status = "active"
         /\ Balanced(lines[tx[s].draft]) /\ Balanced(Edited(tx[s])) =>
              /\ TotalsAre(Total(lines[tx[s].draft], "debit"), Total(lines[tx[s].draft], "credit"),
                           Edited(tx[s]))
              /\ ActiveLines(lines[tx[s].draft]) # {} => ActiveLines(Edited(tx[s])) # {}
<1> DEFINE t == tx[s]
           ls == lines[tx[s].draft]
<1>1. t \in EditCalls /\ ls \in Seq(LineRows) /\ EditFits(t, draft[t.draft], ls)
  BY EditKnown
<1>2. t.line \in LineRows
  BY <1>1 DEF EditCalls
<1>3. CASE t.op = "add"
  <2>1. Edited(t) = Append(ls, t.line)
    BY <1>3 DEF Edited
  <2> HIDE DEF t, ls
  <2>2. /\ Append(ls, t.line) \in Seq(LineRows)
        /\ \A n \in DOMAIN ls : n \in DOMAIN Append(ls, t.line) /\ Append(ls, t.line)[n] = ls[n]
    BY <1>1, <1>2
  <2>3. Balanced(ls) /\ Balanced(Append(ls, t.line)) =>
          /\ TotalsAre(Total(ls, "debit"), Total(ls, "credit"), Append(ls, t.line))
          /\ ActiveLines(ls) # {} => ActiveLines(Append(ls, t.line)) # {}
    BY <1>1, <1>2, BalanceOfAppend, SMTT(30)
  <2> QED BY <2>1, <2>2, <2>3 DEF t, ls
<1>4. CASE t.op # "add"
  <2>1. Edited(t) = [ls EXCEPT ![t.no] = t.line] /\ ls[t.no].version + 1 = t.line.version
    BY <1>4 DEF Edited, LineLands
  <2>2. t.no \in DOMAIN ls /\ ls[t.no].status = "active"
    BY <1>1, <1>4, <2>1 DEF EditFits
  <2> HIDE DEF t, ls
  <2>3. /\ [ls EXCEPT ![t.no] = t.line] \in Seq(LineRows)
        /\ t.no \in 1..Len(ls)
        /\ \A n \in DOMAIN ls : /\ n \in DOMAIN [ls EXCEPT ![t.no] = t.line]
                                /\ n # t.no => [ls EXCEPT ![t.no] = t.line][n] = ls[n]
                                /\ n = t.no => [ls EXCEPT ![t.no] = t.line][n] = t.line
    BY <1>1, <1>2, <2>2
  <2>4. Balanced(ls) /\ Balanced([ls EXCEPT ![t.no] = t.line]) =>
          /\ TotalsAre(Total(ls, "debit"), Total(ls, "credit"), [ls EXCEPT ![t.no] = t.line])
          /\ ActiveLines(ls) # {} => ActiveLines([ls EXCEPT ![t.no] = t.line]) # {}
    BY <1>1, <1>2, <2>3, BalanceOfExcept
  <2> QED BY <2>1, <2>2, <2>3, <2>4 DEF t, ls
<1> QED BY <1>3, <1>4

\* The lines are summed.
LEMMA SumLinesKeeps ==
  ASSUME JInv, NEW s \in Sessions, SumLines(s)
  PROVE  JInv'
<1> DEFINE t == tx[s]
           d == t.draft
           new == Edited(t)
           c == [t EXCEPT !.at = "summed", !.debits = Total(new, "debit"),
                          !.credits = Total(new, "credit")]
<1>1. /\ t \in EditCalls /\ d \in Drafts /\ draft[d] \in DraftRows /\ lines[d] \in Seq(LineRows)
      /\ EditFits(t, draft[d], lines[d])
  BY EditKnown DEF SumLines
<1>2. draft' = draft /\ lines' = lines /\ tx' = [tx EXCEPT ![s] = c] /\ t.op \in Edits
  BY DEF SumLines, Step
<1>3. new \in Seq(LineRows)
  BY LineEffect DEF SumLines
<1>4. new = IF t.op = "add" THEN Append(lines[d], t.line) ELSE [lines[d] EXCEPT ![t.no] = t.line]
  BY DEF Edited
<1> HIDE DEF t, new
<1>5. Total(new, "debit") \in Nat /\ Total(new, "credit") \in Nat
  BY <1>3, TotalIsNatural
<1>6. /\ c.op = t.op /\ c.at = "summed" /\ c.draft = d /\ c.reverts = t.reverts
      /\ c.old = t.old /\ c.no = t.no /\ c.line = t.line
      /\ c.debits = Total(new, "debit") /\ c.credits = Total(new, "credit")
      /\ c \in EditCalls
  BY <1>1, <1>5 DEF EditCalls
<1> HIDE DEF c
<1>7. EditFits(c, draft[d], lines[d])
  BY <1>1, <1>4, <1>6 DEF EditFits, TotalsAre
<1>8. CallFits(c, draft[c.draft], lines[c.draft])
  BY <1>2, <1>6, <1>7 DEF CallFits, Edits
<1> HIDE DEF d
<1> QED BY <1>2, <1>8, QuietKeeps

\* The edit commits: its header has not moved, so it stores the sum of the
\* lines it stores; and where it leaves a draft past "draft", both balance.
LEMMA CommitEditKeeps ==
  ASSUME JInv, NEW s \in Sessions, CommitEdit(s)
  PROVE  JInv'
<1> DEFINE t == tx[s]
           d == t.draft
           new == Edited(t)
           ls == lines[d]
           row == [draft[d] EXCEPT
                     !.status = IF t.reverts THEN "draft" ELSE @, !.debits = t.debits,
                     !.credits = t.credits, !.version = IF t.reverts THEN @ + 1 ELSE @]
<1>1. /\ t \in EditCalls /\ d \in Drafts /\ draft[d] \in DraftRows /\ ls \in Seq(LineRows)
      /\ EditFits(t, draft[d], ls) /\ DraftFits(draft[d], ls)
  BY EditKnown DEF CommitEdit
<1>2. lines' = [lines EXCEPT ![d] = new] /\ Write(d, row) /\ Finish(s) /\ t.at = "summed"
      /\ LineLands(t) /\ CasHits(t) /\ t.op \in Edits
  BY DEF CommitEdit
<1>3. /\ new \in Seq(LineRows)
      /\ \A n \in DOMAIN ls : n \in DOMAIN new
           /\ (new[n] = ls[n] \/ new[n].version = ls[n].version + 1)
      /\ Balanced(ls) /\ Balanced(new) =>
           /\ TotalsAre(Total(ls, "debit"), Total(ls, "credit"), new)
           /\ ActiveLines(ls) # {} => ActiveLines(new) # {}
  BY <1>2, LineEffect
<1>4. t.old = draft[d] /\ draft[d].status # "none"
  BY <1>1, <1>2 DEF EditFits, CasHits
<1>5. TotalsAre(t.debits, t.credits, new)
  BY <1>1, <1>2, <1>4 DEF EditFits, Edited
<1>6. draft[d].version \in Nat
  BY <1>1 DEF DraftRows
<1>7. /\ row \in DraftRows /\ row.status # "none" /\ row.version >= draft[d].version
      /\ row.status = (IF t.reverts THEN "draft" ELSE draft[d].status)
      /\ row.debits = t.debits /\ row.credits = t.credits /\ row.version \in Nat
  <2>1. t.debits \in Nat /\ t.credits \in Nat
    BY <1>1 DEF EditCalls
  <2> DEFINE old == draft[d]
             st == IF t.reverts THEN "draft" ELSE old.status
             v == IF t.reverts THEN old.version + 1 ELSE old.version
  <2>2. /\ st \in DraftStatuses \cup {"none"} /\ st # "none" /\ v \in Nat /\ v >= old.version
        /\ old \in DraftRows
    BY <1>1, <1>4, <1>6 DEF DraftRows, DraftStatuses
  <2>3. row = [old EXCEPT !.status = st, !.debits = t.debits, !.credits = t.credits, !.version = v]
    BY <1>1 DEF DraftRows
  <2> HIDE DEF old, st, v, row, t
  <2>4. /\ row \in DraftRows /\ row.status = st /\ row.version = v
        /\ row.debits = t.debits /\ row.credits = t.credits
    BY <2>1, <2>2, <2>3 DEF DraftRows
  <2> QED BY <2>2, <2>4 DEF old, st
<1> HIDE DEF row
<1>8. PICK row2 \in DraftRows :
        /\ draft' = [draft EXCEPT ![d] = row2]
        /\ row2.version = row.version + 1 /\ row2.status = row.status
        /\ row2.debits = row.debits /\ row2.credits = row.credits
        /\ row2.status \notin {"none", "draft"} => row2.debits = row2.credits
  BY <1>1, <1>2, <1>7, WriteEffect
<1> HIDE DEF new, ls, t
<1>9. RowAdvances(draft[d], ls, row2, new)
  BY <1>3, <1>6, <1>7, <1>8 DEF RowAdvances
<1>10. DraftFits(row2, new)
  <2>1. TotalsAre(row2.debits, row2.credits, new)
    BY <1>5, <1>7, <1>8
  <2>2. ASSUME row2.status \in {"validated", "submitted", "posted"}
        PROVE  ActiveLines(new) # {}
    <3>1. draft[d].status = row2.status
      BY <1>7, <1>8, <2>2
    <3>2. Balanced(ls) /\ ActiveLines(ls) # {}
      BY <1>1, <2>2, <3>1 DEF DraftFits, TotalsAre, Balanced
    <3>3. Balanced(new)
      BY <1>8, <2>1, <2>2 DEF TotalsAre, Balanced
    <3> QED BY <1>3, <3>2, <3>3
  <2> QED BY <1>7, <1>4, <1>8, <2>1, <2>2 DEF DraftFits
<1>11. /\ tx' = [r \in Sessions |-> tx'[r]]
       /\ \A r \in Sessions : tx'[r] = tx[r] \/ tx'[r].op \notin Drafting
  BY <1>2, FinishShape
<1> HIDE DEF d
<1>12. lines' = [lines EXCEPT ![d] = new] /\ RowAdvances(draft[d], lines[d], row2, new)
  BY <1>2, <1>9 DEF ls
<1> QED BY <1>1, <1>3, <1>8, <1>10, <1>11, <1>12, WriteKeeps

\* A write of the header that keeps its totals, and does not validate.
LEMMA HeaderWriteKeeps ==
  ASSUME JInv, NEW d \in Drafts, NEW row \in DraftRows, Write(d, row), lines' = lines,
         row.status # "none", draft[d].status # "none",
         row.version = draft[d].version, row.debits = draft[d].debits,
         row.credits = draft[d].credits,
         row.status \in {"validated", "submitted", "posted"} => ActiveLines(lines[d]) # {},
         tx' = [s \in Sessions |-> tx'[s]],
         \A s \in Sessions : tx'[s] = tx[s] \/ tx'[s].op \notin Drafting
  PROVE  JInv'
<1>1. draft[d] \in DraftRows /\ lines[d] \in Seq(LineRows) /\ DraftFits(draft[d], lines[d])
  BY DEF JInv
<1>2. PICK row2 \in DraftRows :
        /\ draft' = [draft EXCEPT ![d] = row2]
        /\ row2.version = row.version + 1 /\ row2.status = row.status
        /\ row2.debits = row.debits /\ row2.credits = row.credits
        /\ row2.status \notin {"none", "draft"} => row2.debits = row2.credits
  BY WriteEffect
<1>3. RowAdvances(draft[d], lines[d], row2, lines[d])
  BY <1>1, <1>2 DEF RowAdvances, DraftRows
<1>4. DraftFits(row2, lines[d])
  BY <1>1, <1>2 DEF DraftFits
<1>5. lines' = [lines EXCEPT ![d] = lines[d]]
  BY DEF JInv
<1> QED BY <1>1, <1>2, <1>3, <1>4, <1>5, WriteKeeps

\* The header edit, the submission and the withdrawal.
LEMMA HeaderCallsKeep ==
  ASSUME JInv, NEW d \in Drafts
  PROVE  /\ \A period \in Periods, currency \in Currencies \cup {NoCurrency} :
              EditHeader(d, period, currency) => JInv'
         /\ SubmitDraft(d) => JInv'
         /\ WithdrawDraft(d) => JInv'
<1>1. draft[d] \in DraftRows /\ DraftFits(draft[d], lines[d])
  BY DEF JInv
<1>2. ASSUME tx' = tx PROVE /\ tx' = [s \in Sessions |-> tx'[s]]
                           /\ \A s \in Sessions : tx'[s] = tx[s] \/ tx'[s].op \notin Drafting
  BY <1>2 DEF JInv
<1>3. ASSUME NEW status \in DraftStatuses
      PROVE  LET row == [draft[d] EXCEPT !.status = status] IN
             /\ row \in DraftRows /\ row.status = status /\ row.version = draft[d].version
             /\ row.debits = draft[d].debits /\ row.credits = draft[d].credits
  BY <1>1 DEF DraftRows
<1>4. ASSUME NEW period \in Periods, NEW currency \in Currencies \cup {NoCurrency},
             EditHeader(d, period, currency)
      PROVE  JInv'
  <2> DEFINE row == [draft[d] EXCEPT !.period = period, !.currency = currency]
  <2>1. /\ row \in DraftRows /\ row.status = draft[d].status /\ row.version = draft[d].version
        /\ row.debits = draft[d].debits /\ row.credits = draft[d].credits
    BY <1>1 DEF DraftRows
  <2>2. Write(d, row) /\ lines' = lines /\ tx' = tx /\ Editable(draft[d].status)
    BY <1>4 DEF EditHeader
  <2> HIDE DEF row
  <2>3. /\ draft[d].status # "none"
        /\ row.status \in {"validated", "submitted", "posted"} => ActiveLines(lines[d]) # {}
    BY <1>1, <2>1, <2>2 DEF Editable, DraftFits
  <2> QED BY <1>2, <2>1, <2>2, <2>3, HeaderWriteKeeps
<1>5. ASSUME SubmitDraft(d) PROVE JInv'
  <2> DEFINE row == [draft[d] EXCEPT !.status = "submitted"]
  <2>1. /\ row \in DraftRows /\ row.status = "submitted" /\ row.version = draft[d].version
        /\ row.debits = draft[d].debits /\ row.credits = draft[d].credits
    BY <1>3 DEF DraftStatuses
  <2>2. /\ Write(d, row) /\ lines' = lines /\ tx' = tx
        /\ CanMoveDraft(draft[d].status, "submitted")
    BY <1>5 DEF SubmitDraft
  <2> HIDE DEF row
  <2>3. draft[d].status = "validated"
    BY <2>2 DEF CanMoveDraft, DraftMachine, DraftStatuses
  <2>4. ActiveLines(lines[d]) # {}
    BY <1>1, <2>3 DEF DraftFits
  <2> QED BY <1>2, <2>1, <2>2, <2>3, <2>4, HeaderWriteKeeps
<1>6. ASSUME WithdrawDraft(d) PROVE JInv'
  <2> DEFINE row == [draft[d] EXCEPT !.status = "withdrawn"]
  <2>1. /\ row \in DraftRows /\ row.status = "withdrawn" /\ row.version = draft[d].version
        /\ row.debits = draft[d].debits /\ row.credits = draft[d].credits
    BY <1>3 DEF DraftStatuses
  <2>2. /\ Write(d, row) /\ lines' = lines /\ tx' = tx
        /\ CanMoveDraft(draft[d].status, "withdrawn")
    BY <1>6 DEF WithdrawDraft
  <2> HIDE DEF row
  <2>3. draft[d].status # "none"
    BY <2>2 DEF CanMoveDraft, DraftStatuses
  <2> QED BY <1>2, <2>1, <2>2, <2>3, HeaderWriteKeeps
<1> QED BY <1>4, <1>5, <1>6

\* Validation: reading the header, judging the lines, and storing the verdict.
LEMMA ValidateKeeps ==
  ASSUME JInv, NEW s \in Sessions
  PROVE  /\ \A d \in Drafts : BeginValidate(s, d) => JInv'
         /\ CheckLines(s) => JInv'
         /\ CommitValidate(s) => JInv'
<1>1. ASSUME NEW d \in Drafts, BeginValidate(s, d) PROVE JInv'
  <2> DEFINE c == [op |-> "validate", at |-> "begun", draft |-> d, old |-> draft[d],
                   valid |-> FALSE]
  <2>1. draft[d] \in DraftRows
    BY DEF JInv
  <2>2. c \in ValidateCalls /\ c.op = "validate" /\ c.at = "begun" /\ c.draft = d /\ c.old = draft[d]
    BY <2>1 DEF ValidateCalls
  <2>3. draft[d].version \in Nat /\ draft[d].status # "none"
    BY <1>1, <2>1 DEF DraftRows, BeginValidate, Editable
  <2>4. draft' = draft /\ lines' = lines /\ tx' = [tx EXCEPT ![s] = c]
    BY <1>1 DEF BeginValidate, Open
  <2> HIDE DEF c
  <2>5. CallFits(c, draft[c.draft], lines[c.draft])
    BY <2>2, <2>3 DEF CallFits, ValidateFits, Edits
  <2> QED BY <2>4, <2>5, QuietKeeps
<1>2. ASSUME tx[s].op = "validate"
      PROVE  /\ tx[s] \in ValidateCalls /\ tx[s].draft \in Drafts
             /\ draft[tx[s].draft] \in DraftRows
             /\ ValidateFits(tx[s], draft[tx[s].draft], lines[tx[s].draft])
             /\ DraftFits(draft[tx[s].draft], lines[tx[s].draft])
  <2>1. tx[s] \in ValidateCalls /\ ValidateFits(tx[s], draft[tx[s].draft], lines[tx[s].draft])
    BY <1>2 DEF JInv, CallFits
  <2>2. tx[s].draft \in Drafts
    BY <2>1 DEF ValidateCalls
  <2> QED BY <2>1, <2>2 DEF JInv
<1>3. ASSUME CheckLines(s) PROVE JInv'
  <2> DEFINE t == tx[s]
             found == Valid(t.old, lines[t.draft]) /\ ~HasPosted(t.draft)
             c == [t EXCEPT !.at = "checked", !.valid = found]
  <2>1. /\ t \in ValidateCalls /\ t.op = "validate"
        /\ ValidateFits(t, draft[t.draft], lines[t.draft])
    BY <1>2, <1>3 DEF CheckLines
  <2>2. draft' = draft /\ lines' = lines /\ tx' = [tx EXCEPT ![s] = c]
    BY <1>3 DEF CheckLines, Step
  <2>3. found \in BOOLEAN /\ (found => ActiveLines(lines[t.draft]) # {})
    BY DEF Valid
  <2> HIDE DEF t, found
  <2>4. /\ c \in ValidateCalls /\ c.op = "validate" /\ c.draft = t.draft /\ c.old = t.old
        /\ c.valid = found
    BY <2>1, <2>3 DEF ValidateCalls
  <2> HIDE DEF c
  <2>5. CallFits(c, draft[c.draft], lines[c.draft])
    BY <2>1, <2>3, <2>4 DEF CallFits, ValidateFits, Edits
  <2> QED BY <2>2, <2>5, QuietKeeps
<1>4. ASSUME CommitValidate(s) PROVE JInv'
  <2> DEFINE t == tx[s]
             d == t.draft
             verdict == IF t.valid THEN "validated" ELSE "draft"
             row == [draft[d] EXCEPT !.status = verdict]
  <2>1. /\ d \in Drafts /\ draft[d] \in DraftRows
        /\ ValidateFits(t, draft[d], lines[d]) /\ DraftFits(draft[d], lines[d])
    BY <1>2, <1>4 DEF CommitValidate
  <2>2. t.at = "checked" /\ CasHits(t) /\ Write(d, row) /\ Finish(s) /\ lines' = lines
    BY <1>4 DEF CommitValidate
  <2>3. /\ row \in DraftRows /\ row.status = verdict /\ row.version = draft[d].version
        /\ row.debits = draft[d].debits /\ row.credits = draft[d].credits
    BY <2>1 DEF DraftRows, DraftStatuses
  <2> HIDE DEF row
  <2>4. /\ row.status # "none" /\ draft[d].status # "none"
        /\ row.status \in {"validated", "submitted", "posted"} => ActiveLines(lines[d]) # {}
    BY <2>1, <2>2, <2>3 DEF ValidateFits, CasHits
  <2>5. /\ tx' = [r \in Sessions |-> tx'[r]]
        /\ \A r \in Sessions : tx'[r] = tx[r] \/ tx'[r].op \notin Drafting
    BY <2>2, FinishShape
  <2> HIDE DEF d
  <2> QED BY <2>1, <2>2, <2>3, <2>4, <2>5, HeaderWriteKeeps
<1> QED BY <1>1, <1>3, <1>4

\* Every step of the drafting half keeps the invariant.
LEMMA JournalStepKeeps ==
  ASSUME JInv, JournalNext
  PROVE  JInv'
<1>1. ASSUME NEW s \in Sessions, EditCall(s) PROVE JInv'
  BY <1>1, EditBeginsKeep, WriteLineKeeps, SumLinesKeeps, CommitEditKeeps DEF EditCall
<1>2. ASSUME NEW s \in Sessions, ValidateCall(s) PROVE JInv'
  BY <1>2, ValidateKeeps DEF ValidateCall
<1>3. ASSUME NEW s \in Sessions, Rollback(s) PROVE JInv'
  <2>1. draft' = draft /\ lines' = lines /\ tx' = [tx EXCEPT ![s] = Idle]
    BY <1>3 DEF Rollback, Finish
  <2>2. CallFits(Idle, draft[Idle.draft], lines[Idle.draft])
    BY DEF CallFits, Idle, Edits
  <2> QED BY <2>1, <2>2, QuietKeeps
<1>4. ASSUME NEW d \in Drafts, HeaderCall(d) PROVE JInv'
  BY <1>4, CreateKeeps, HeaderCallsKeep DEF HeaderCall
<1> QED BY <1>1, <1>2, <1>3, <1>4 DEF JournalNext

\* The inductive invariant of the drafting half.
THEOREM JournalInvariance == JournalSpec => []JInv
<1>1. JournalInit => JInv
  BY JournalInitFits
<1>2. JInv /\ [JournalNext]_<<draft, lines, results, tx>> => JInv'
  <2>1. ASSUME JInv, UNCHANGED <<draft, lines, results, tx>> PROVE JInv'
    BY <2>1 DEF JInv, CallFits, EditFits, ValidateFits, DraftFits
  <2> QED BY <2>1, JournalStepKeeps
<1> QED BY <1>1, <1>2, PTL DEF JournalSpec

\* Headers, lines and open drafting calls have the shape of their columns.
THEOREM JournalTypeCorrect == JournalSpec => []JournalTypeOK
<1>1. JInv => JournalTypeOK
  BY DEF JInv, JournalTypeOK, CallFits
<1> QED BY <1>1, JournalInvariance, PTL

\* The header's totals are those of its lines, whichever edits of one draft run
\* at once: a sum is stored only over the header that was there before the
\* lines were read (recomputeTotals, updateDraftTotals).
THEOREM HeaderSumsItsLines == JournalSpec => []TotalsMatchLines
<1>1. JInv => TotalsMatchLines
  BY DEF JInv, TotalsMatchLines, DraftFits, TotalsAre
<1> QED BY <1>1, JournalInvariance, PTL

\* A submitted or posted draft has lines, and they balance: the CHECK on the
\* header is enough, because no edit that lands late can lead from a balance
\* to another.
THEOREM SubmittedDraftsBalance == JournalSpec => []SubmittedBalances
<1>1. JInv => SubmittedBalances
  BY DEF JInv, SubmittedBalances, DraftFits, TotalsAre
<1> QED BY <1>1, JournalInvariance, PTL

\* A line's edit lands on the version it read, and that line was active then.
THEOREM EditsAreNeverLost == JournalSpec => EveryLineEditCounts
<1> DEFINE Counts ==
      \A d \in Drafts : \A n \in DOMAIN lines[d] : lines'[d][n] # lines[d][n] =>
        /\ lines[d][n].status = "active"
        /\ lines'[d][n].version = lines[d][n].version + 1
<1>1. ASSUME JInv, JournalNext PROVE Counts
  <2>1. ASSUME lines' = lines PROVE Counts
    BY <2>1
  <2>2. ASSUME NEW d \in Drafts, NEW opening \in Openings, NEW period \in Periods,
               NEW currency \in Currencies \cup {NoCurrency},
               CreateDraft(d, opening, period, currency)
        PROVE  Counts
    <3> DEFINE ls == [n \in DOMAIN opening |-> NewLine(opening[n])]
    <3>1. lines' = [lines EXCEPT ![d] = ls] /\ draft[d].status = "none"
      BY <2>2 DEF CreateDraft
    <3> HIDE DEF ls
    <3>2. \A e \in Drafts : e # d => lines'[e] = lines[e]
      BY <1>1, <3>1 DEF JInv
    <3>3. DOMAIN lines[d] = {}
      BY <1>1, <3>1 DEF JInv, DraftFits
    <3> QED BY <3>2, <3>3
  <2>3. ASSUME NEW s \in Sessions, CommitEdit(s) PROVE Counts
    <3> DEFINE t == tx[s]
    <3>1. lines' = [lines EXCEPT ![t.draft] = Edited(t)] /\ t.op \in Edits /\ LineLands(t)
      BY <2>3 DEF CommitEdit
    <3>2. \A n \in DOMAIN lines[t.draft] :
            \/ Edited(t)[n] = lines[t.draft][n]
            \/ /\ Edited(t)[n].version = lines[t.draft][n].version + 1
               /\ lines[t.draft][n].status = "active"
      BY <1>1, <3>1, LineEffect
    <3> HIDE DEF t
    <3> QED BY <1>1, <3>1, <3>2 DEF JInv
  <2> HIDE DEF Counts
  <2>4. ASSUME NEW s \in Sessions, EditCall(s), ~CommitEdit(s) PROVE lines' = lines
    BY <2>4 DEF EditCall, BeginAdd, BeginUpdate, BeginRemove, BeginEdit, WriteLine, SumLines
  <2>5. ASSUME NEW s \in Sessions, ValidateCall(s) \/ Rollback(s) PROVE lines' = lines
    BY <2>5 DEF ValidateCall, BeginValidate, CheckLines, CommitValidate, Rollback
  <2>6. ASSUME NEW d \in Drafts, HeaderCall(d) PROVE Counts
    <3>1. ASSUME NEW period \in Periods, NEW currency \in Currencies \cup {NoCurrency},
                 EditHeader(d, period, currency)
          PROVE  lines' = lines
      BY <3>1 DEF EditHeader
    <3>2. SubmitDraft(d) \/ WithdrawDraft(d) => lines' = lines
      BY DEF SubmitDraft, WithdrawDraft
    <3> QED BY <2>1, <2>2, <2>6, <3>1, <3>2 DEF HeaderCall
  <2> QED BY <1>1, <2>1, <2>3, <2>4, <2>5, <2>6 DEF JournalNext
<1>2. ASSUME JInv, [JournalNext]_<<draft, lines, results, tx>>
      PROVE  [Counts]_<<draft, lines, tx>>
  <2> HIDE DEF Counts
  <2> QED BY <1>1, <1>2
<1> QED BY <1>2, JournalInvariance, PTL DEF JournalSpec, EveryLineEditCounts
=============================================================================
