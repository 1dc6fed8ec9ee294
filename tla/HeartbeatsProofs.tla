--------------------------- MODULE HeartbeatsProofs ---------------------------
(***************************************************************************)
(* The history that is shown and the pruning of the rows, for any number   *)
(* of monitors, any intervals and delays, and any of the four limits.      *)
(*                                                                         *)
(* HistoryIsRecent is not inductive: it is about the rows of one block,    *)
(* and time moves rows between blocks.  Behind it is Overlap: a row is     *)
(* never older than one inserted before it by more than a check may take.  *)
(* GapsAreCuts needs that what was recorded is all there until the table   *)
(* has grown to what a prune keeps (Complete).                             *)
(***************************************************************************)
EXTENDS Heartbeats, Extremes, FiniteSetTheorems, FunctionTheorems, SequenceTheorems

\* Of a table s: rows in the order of their ids are nearly in that of their times.
Overlap(s) == \A i, j \in DOMAIN s : j < i => s[i].age - s[j].age <= MaxDelay

\* Of a table s and all the ages its monitor ever had.
Complete(s, ages) == Len(s) < Keep => \A a \in ages : \E i \in DOMAIN s : s[i].age = a

HeartbeatsInv ==
  /\ HeartbeatsTypeOK
  /\ \A m \in Sites : Overlap(rows[m]) /\ Complete(rows[m], recorded[m])
-----------------------------------------------------------------------------
(* Numbers.                                                                *)

LEMMA WindowType == Window \in Nat /\ MaxDelay <= Window /\ AgeLimit = Window + 1
BY HeartbeatsAssumption DEF Window, AgeLimit

LEMMA OlderType ==
  ASSUME NEW a \in 0 .. AgeLimit
  PROVE  Older(a) \in 0 .. AgeLimit /\ (a < AgeLimit => Older(a) = a + 1)
BY WindowType DEF Older

\* Ageing two rows moves them apart only where the newer one gets no older.
LEMMA OlderKeepsOverlap ==
  ASSUME NEW a \in 0 .. AgeLimit, NEW b \in 0 .. AgeLimit, a - b <= MaxDelay
  PROVE  Older(a) - Older(b) <= MaxDelay
BY WindowType, HeartbeatsAssumption DEF Older

\* Every age of the window has its block.
LEMMA BlockOfType ==
  ASSUME NEW a \in 0 .. Window
  PROVE  BlockOf(a) \in 0 .. Blocks - 1
<1>1. CASE a = 0
  BY <1>1, HeartbeatsAssumption DEF BlockOf
<1>2. CASE a # 0
  <2> DEFINE x == Window - a
             q == x \div Hour
  <2>1. x \in Nat /\ x < Blocks * Hour
    BY <1>2, WindowType DEF Window
  <2> HIDE DEF x
  <2>2. q \in Int /\ Hour * q <= x /\ x < Hour * (q + 1)
    BY <2>1, HeartbeatsAssumption
  <2>3. BlockOf(a) = q
    BY <1>2 DEF BlockOf, x
  <2> HIDE DEF q
  <2>4. q >= 0
    BY <2>1, <2>2, HeartbeatsAssumption
  <2>5. q < Blocks
    BY <2>1, <2>2, HeartbeatsAssumption
  <2> QED BY <2>2, <2>3, <2>4, <2>5, HeartbeatsAssumption
<1> QED BY <1>1, <1>2
-----------------------------------------------------------------------------
(* Tables: what is appended, what is aged, what a prune leaves.            *)

LEMMA RowTypes ==
  ASSUME NEW s \in Seq(Beats)
  PROVE  /\ Len(s) \in Nat /\ DOMAIN s = 1 .. Len(s)
         /\ \A i \in DOMAIN s : /\ s[i] \in Beats
                              /\ s[i].age \in 0 .. AgeLimit /\ s[i].age \in Int
                              /\ s[i].status \in {"up", "down"}
<1>1. Len(s) \in Nat /\ DOMAIN s = 1 .. Len(s) /\ \A i \in DOMAIN s : s[i] \in Beats
  BY LenProperties
<1>2. \A b \in Beats : b.age \in 0 .. AgeLimit /\ b.status \in {"up", "down"}
  BY DEF Beats
<1> QED BY <1>1, <1>2

LEMMA AppendedTable ==
  ASSUME NEW s \in Seq(Beats), Overlap(s), NEW b \in Beats, b.age <= MaxDelay
  PROVE  LET t == Append(s, b)
         IN  /\ t \in Seq(Beats) /\ Overlap(t) /\ Len(t) = Len(s) + 1
             /\ t[Len(t)] = b
             /\ \A i \in DOMAIN s : i \in DOMAIN t /\ t[i] = s[i]
<1> DEFINE t == Append(s, b)
<1>1. Len(s) \in Nat /\ DOMAIN s = 1 .. Len(s) /\ \A i \in 1 .. Len(s) : s[i] \in Beats
  BY LenProperties
<1>2. t \in Seq(Beats) /\ Len(t) = Len(s) + 1
  OBVIOUS
<1>3. DOMAIN t = 1 .. Len(s) + 1
  BY <1>2, LenProperties
<1>4. t[Len(s) + 1] = b /\ \A i \in 1 .. Len(s) : t[i] = s[i]
  BY <1>1
<1> HIDE DEF t
<1>5. b.age \in 0 .. AgeLimit /\ \A i \in 1 .. Len(s) : s[i].age \in 0 .. AgeLimit
  BY <1>1 DEF Beats
<1>6. Overlap(t)
  <2> SUFFICES ASSUME NEW i \in 1 .. Len(s) + 1, NEW j \in 1 .. Len(s) + 1, j < i
               PROVE  t[i].age - t[j].age <= MaxDelay
    BY <1>3 DEF Overlap
  <2>1. j \in 1 .. Len(s) /\ t[j] = s[j]
    BY <1>1, <1>4
  <2>2. CASE i = Len(s) + 1
    <3>1. t[i].age <= MaxDelay /\ t[i].age \in Int /\ t[j].age \in Nat
      BY <1>4, <1>5, <2>1, <2>2, WindowType
    <3> QED BY <3>1, HeartbeatsAssumption
  <2>3. CASE i # Len(s) + 1
    <3>1. i \in 1 .. Len(s) /\ t[i] = s[i]
      BY <1>1, <1>4, <2>3
    <3> QED BY <1>1, <2>1, <3>1 DEF Overlap
  <2> QED BY <2>2, <2>3
<1> QED BY <1>1, <1>2, <1>3, <1>4, <1>6 DEF t

AgedTable(s) == [i \in DOMAIN s |-> [s[i] EXCEPT !.age = Older(@)]]

LEMMA AgedRows ==
  ASSUME NEW s \in Seq(Beats), Overlap(s)
  PROVE  LET t == AgedTable(s)
         IN  /\ t \in Seq(Beats) /\ Overlap(t) /\ Len(t) = Len(s)
             /\ DOMAIN t = DOMAIN s
             /\ \A i \in DOMAIN s : t[i].age = Older(s[i].age)
<1> DEFINE t == AgedTable(s)
<1>1. Len(s) \in Nat /\ DOMAIN s = 1 .. Len(s) /\ \A i \in 1 .. Len(s) : s[i] \in Beats
  BY LenProperties
<1>2. ASSUME NEW i \in 1 .. Len(s)
      PROVE  t[i] \in Beats /\ t[i].age = Older(s[i].age) /\ s[i].age \in 0 .. AgeLimit
  <2>1. t[i] = [s[i] EXCEPT !.age = Older(s[i].age)]
    BY <1>1 DEF AgedTable
  <2>2. s[i].age \in 0 .. AgeLimit
    BY <1>1 DEF Beats
  <2>3. Older(s[i].age) \in 0 .. AgeLimit
    BY <2>2, OlderType
  <2> QED BY <1>1, <2>1, <2>2, <2>3 DEF Beats
<1>3. t \in [1 .. Len(s) -> Beats]
  <2>1. t = [i \in 1 .. Len(s) |-> t[i]]
    BY <1>1 DEF AgedTable
  <2> HIDE DEF t
  <2> QED BY <1>2, <2>1
<1> HIDE DEF t
<1>4. t \in Seq(Beats) /\ DOMAIN t = 1 .. Len(s)
  BY <1>1, <1>3, SeqDef
<1>5. Len(t) = Len(s)
  BY <1>1, <1>4, LenProperties
<1>6. Overlap(t)
  BY <1>1, <1>2, <1>4, OlderKeepsOverlap DEF Overlap
<1> QED BY <1>1, <1>2, <1>4, <1>5, <1>6 DEF t

PrunedTable(s) == IF Len(s) <= Keep THEN s ELSE SubSeq(s, FirstKept(s), Len(s))

\* A prune that drops rows drops the first ones: the others move by off positions.
LEMMA PrunedShifts ==
  ASSUME NEW s \in Seq(Beats), Len(s) > Keep
  PROVE  LET t == PrunedTable(s)
             off == Len(s) - Keep
         IN  /\ off \in Nat /\ off + Keep = Len(s)
             /\ t \in Seq(Beats) /\ Len(t) = Keep /\ DOMAIN t = 1 .. Keep
             /\ \A i \in 1 .. Keep : t[i] = s[i + off]
<1> DEFINE t == PrunedTable(s)
           off == Len(s) - Keep
<1>1. Len(s) \in Nat /\ DOMAIN s = 1 .. Len(s) /\ \A i \in 1 .. Len(s) : s[i] \in Beats
  BY LenProperties
<1>2. off \in Nat /\ off + Keep = Len(s) /\ FirstKept(s) = off + 1 /\ Keep \in Nat \ {0}
  BY <1>1, HeartbeatsAssumption DEF FirstKept
<1>3. t = SubSeq(s, off + 1, Len(s))
  BY <1>1, <1>2 DEF PrunedTable
<1> HIDE DEF off
<1>4. \A i \in off + 1 .. Len(s) : s[i] \in Beats
  BY <1>1, <1>2
<1>5. /\ t \in Seq(Beats)
      /\ Len(t) = IF off + 1 <= Len(s) THEN Len(s) - (off + 1) + 1 ELSE 0
      /\ \A i \in 1 .. Len(s) - (off + 1) + 1 : t[i] = s[off + 1 + i - 1]
  <2> HIDE DEF t
  <2>1. off + 1 \in Int /\ Len(s) \in Int
    BY <1>1, <1>2
  <2> QED BY <1>3, <1>4, <2>1, SubSeqProperties
<1> HIDE DEF t
<1>6. Len(t) = Keep
  <2> DEFINE n == Len(s)
  <2>1. off \in Nat /\ off + Keep = n /\ Keep \in Nat /\ Keep > 0
    BY <1>2
  <2>2. Len(t) = IF off + 1 <= n THEN n - (off + 1) + 1 ELSE 0
    BY <1>5
  <2> HIDE DEF n
  <2> QED BY <2>1, <2>2
<1>7. DOMAIN t = 1 .. Keep
  BY <1>5, <1>6, LenProperties
<1>8. ASSUME NEW i \in 1 .. Keep PROVE t[i] = s[i + off]
  <2>1. i \in 1 .. Len(s) - (off + 1) + 1 /\ off + 1 + i - 1 = i + off
    BY <1>1, <1>2
  <2> QED BY <1>5, <2>1
<1> QED BY <1>2, <1>5, <1>6, <1>7, <1>8 DEF t, off

LEMMA PrunedTableType ==
  ASSUME NEW s \in Seq(Beats), Overlap(s)
  PROVE  LET t == PrunedTable(s)
         IN  /\ t \in Seq(Beats) /\ Overlap(t)
             /\ t = s \/ Len(t) = Keep
<1>1. CASE Len(s) <= Keep
  BY <1>1 DEF PrunedTable
<1>2. CASE Len(s) > Keep
  <2> DEFINE t == PrunedTable(s)
             off == Len(s) - Keep
  <2>1. /\ off \in Nat /\ off + Keep = Len(s)
        /\ t \in Seq(Beats) /\ Len(t) = Keep /\ DOMAIN t = 1 .. Keep
        /\ \A i \in 1 .. Keep : t[i] = s[i + off]
    BY <1>2, PrunedShifts
  <2> HIDE DEF t, off
  <2>2. DOMAIN s = 1 .. Len(s) /\ Len(s) \in Nat
    BY LenProperties
  <2>3. ASSUME NEW i \in 1 .. Keep, NEW j \in 1 .. Keep, j < i
        PROVE  t[i].age - t[j].age <= MaxDelay
    <3>1. i + off \in DOMAIN s /\ j + off \in DOMAIN s /\ j + off < i + off
      BY <2>1, <2>2, <2>3, HeartbeatsAssumption
    <3> QED BY <2>1, <3>1 DEF Overlap
  <2>4. Overlap(t)
    BY <2>1, <2>3 DEF Overlap
  <2> QED BY <2>1, <2>4 DEF t
<1>3. Len(s) <= Keep \/ Len(s) > Keep
  BY LenProperties, HeartbeatsAssumption
<1> QED BY <1>1, <1>2, <1>3
-----------------------------------------------------------------------------
(* The invariant.                                                          *)

LEMMA HeartbeatsStart == HeartbeatsInit => HeartbeatsInv
<1> SUFFICES ASSUME HeartbeatsInit PROVE HeartbeatsInv
  OBVIOUS
<1>1. <<>> \in Seq(Beats) /\ DOMAIN <<>> = {}
  BY EmptySeq
<1>2. Interval \in 0 .. Interval
  BY HeartbeatsAssumption
<1>3. HeartbeatsTypeOK
  BY <1>1, <1>2 DEF HeartbeatsInit, HeartbeatsTypeOK
<1>4. \A m \in Sites : Overlap(rows[m]) /\ Complete(rows[m], recorded[m])
  BY <1>1 DEF HeartbeatsInit, Overlap, Complete
<1> QED BY <1>3, <1>4 DEF HeartbeatsInit, HeartbeatsInv

\* What every step owes of each monitor.
TableInv(s, ages) == s \in Seq(Beats) /\ Overlap(s) /\ Complete(s, ages)

LEMMA TablesPreserve ==
  ASSUME site' \subseteq Sites,
         rows' = [m \in Sites |-> rows'[m]],
         \A m \in Sites : TableInv(rows'[m], recorded'[m]),
         \A m \in Sites \ site' : rows'[m] = <<>>,
         flight' \in [Sites -> SUBSET (0 .. MaxDelay)],
         quiet' \in [Sites -> 0 .. Interval],
         recorded' \in [Sites -> SUBSET (0 .. AgeLimit)]
  PROVE  HeartbeatsInv'
<1>1. rows' \in [Sites -> Seq(Beats)]
  BY DEF TableInv
<1>2. HeartbeatsTypeOK'
  BY <1>1 DEF HeartbeatsTypeOK
<1>3. (\A m \in Sites : Overlap(rows[m]) /\ Complete(rows[m], recorded[m]))'
  BY DEF TableInv, Overlap, Complete
<1> QED BY <1>2, <1>3 DEF HeartbeatsInv

LEMMA TablesNow ==
  ASSUME HeartbeatsInv
  PROVE  /\ site \subseteq Sites /\ rows = [m \in Sites |-> rows[m]]
         /\ \A m \in Sites : TableInv(rows[m], recorded[m])
         /\ \A m \in Sites \ site : rows[m] = <<>>
         /\ flight \in [Sites -> SUBSET (0 .. MaxDelay)]
         /\ quiet \in [Sites -> 0 .. Interval]
         /\ recorded \in [Sites -> SUBSET (0 .. AgeLimit)]
BY DEF HeartbeatsInv, HeartbeatsTypeOK, TableInv

LEMMA InsertPreserves ==
  ASSUME HeartbeatsInv, NEW m \in Sites, InsertHeartbeat(m)
  PROVE  HeartbeatsInv'
<1>1. PICK a \in flight[m], status \in {"up", "down"} :
        /\ flight' = [flight EXCEPT ![m] = @ \ {a}]
        /\ rows' = [rows EXCEPT ![m] = Append(@, [status |-> status, age |-> a])]
        /\ recorded' = [recorded EXCEPT ![m] = @ \cup {a}]
        /\ m \in site /\ UNCHANGED <<site, quiet>>
  BY DEF InsertHeartbeat
<1> DEFINE b == [status |-> status, age |-> a]
           t == Append(rows[m], b)
<1>2. a \in 0 .. MaxDelay /\ a \in 0 .. AgeLimit /\ a <= MaxDelay
  BY TablesNow, WindowType, HeartbeatsAssumption
<1>3. b \in Beats /\ b.age = a
  BY <1>2 DEF Beats
<1>4. rows' = [rows EXCEPT ![m] = t]
  BY <1>1
<1> HIDE DEF b
<1>5. TableInv(rows[m], recorded[m]) /\ Len(rows[m]) \in Nat
  BY TablesNow, LenProperties DEF TableInv
<1>6. /\ t \in Seq(Beats) /\ Overlap(t) /\ Len(t) = Len(rows[m]) + 1
      /\ t[Len(t)] = b /\ \A i \in DOMAIN rows[m] : i \in DOMAIN t /\ t[i] = rows[m][i]
  BY <1>2, <1>3, <1>5, AppendedTable DEF TableInv
<1> HIDE DEF t
<1>7. Len(t) \in DOMAIN t
  BY <1>5, <1>6, LenProperties
<1>8. Complete(t, recorded[m] \cup {a})
  <2> SUFFICES ASSUME Len(t) < Keep, NEW x \in recorded[m] \cup {a}
               PROVE  \E i \in DOMAIN t : t[i].age = x
    BY DEF Complete
  <2>1. Len(rows[m]) < Keep
    BY <1>5, <1>6, HeartbeatsAssumption
  <2> QED BY <1>3, <1>5, <1>6, <1>7, <2>1 DEF TableInv, Complete
<1>9. \A n \in Sites : TableInv(rows'[n], recorded'[n])
  BY <1>1, <1>4, <1>6, <1>8, TablesNow DEF TableInv
<1>10. recorded' \in [Sites -> SUBSET (0 .. AgeLimit)]
  BY <1>1, <1>2, TablesNow
<1>11. flight' \in [Sites -> SUBSET (0 .. MaxDelay)] /\ rows' = [n \in Sites |-> rows'[n]]
  BY <1>1, <1>4, TablesNow
<1>12. \A n \in Sites \ site' : rows'[n] = <<>>
  BY <1>1, <1>4, TablesNow
<1> QED BY <1>1, <1>9, <1>10, <1>11, <1>12, TablesNow, TablesPreserve

LEMMA PrunePreserves ==
  ASSUME HeartbeatsInv, Prune
  PROVE  HeartbeatsInv'
<1>1. rows' = [m \in Sites |-> PrunedTable(rows[m])] /\ UNCHANGED <<site, flight, quiet, recorded>>
  BY DEF Prune, PrunedTable
<1>2. ASSUME NEW m \in Sites PROVE TableInv(rows'[m], recorded'[m])
  <2> DEFINE t == PrunedTable(rows[m])
  <2>1. t \in Seq(Beats) /\ Overlap(t) /\ (t = rows[m] \/ Len(t) = Keep)
    BY TablesNow, PrunedTableType DEF TableInv
  <2> HIDE DEF t
  <2>2. Complete(t, recorded[m])
    BY <2>1, TablesNow, HeartbeatsAssumption DEF TableInv, Complete
  <2> QED BY <1>1, <2>1, <2>2 DEF TableInv, t
<1>3. \A m \in Sites \ site' : rows'[m] = <<>>
  <2> SUFFICES ASSUME NEW m \in Sites \ site PROVE PrunedTable(<<>>) = <<>>
    BY <1>1, TablesNow
  <2>1. Len(<<>>) = 0 /\ 0 <= Keep
    BY HeartbeatsAssumption, EmptySeq
  <2> QED BY <2>1 DEF PrunedTable
<1> QED BY <1>1, <1>2, <1>3, TablesNow, TablesPreserve

LEMMA HeartbeatsTickPreserves ==
  ASSUME HeartbeatsInv, HeartbeatsTick
  PROVE  HeartbeatsInv'
<1>1. /\ rows' = [m \in Sites |-> AgedTable(rows[m])]
      /\ flight' = [m \in Sites |-> {a + 1 : a \in flight[m]}]
      /\ quiet' = [m \in Sites |-> IF quiet[m] = Interval THEN Interval ELSE quiet[m] + 1]
      /\ recorded' = [m \in Sites |-> {Older(a) : a \in recorded[m]}]
      /\ site' = site /\ \A m \in Sites : MaxDelay \notin flight[m]
  BY DEF HeartbeatsTick, AgedTable
<1>2. ASSUME NEW m \in Sites PROVE TableInv(rows'[m], recorded'[m])
  <2> DEFINE s == rows[m]
             t == AgedTable(s)
  <2>1. s \in Seq(Beats) /\ Overlap(s) /\ Complete(s, recorded[m])
    BY TablesNow DEF TableInv
  <2>2. /\ t \in Seq(Beats) /\ Overlap(t) /\ Len(t) = Len(s) /\ DOMAIN t = DOMAIN s
        /\ \A i \in DOMAIN s : t[i].age = Older(s[i].age)
    BY <2>1, AgedRows
  <2> HIDE DEF t, s
  <2>3. Complete(t, {Older(a) : a \in recorded[m]})
    BY <2>1, <2>2 DEF Complete
  <2> QED BY <1>1, <2>2, <2>3 DEF TableInv, t, s
<1>3. \A m \in Sites \ site' : rows'[m] = <<>>
  <2> SUFFICES ASSUME NEW m \in Sites \ site
               PROVE  AgedTable(<<>>) = <<>>
    BY <1>1, TablesNow
  <2> QED BY EmptySeq DEF AgedTable
<1>4. flight' \in [Sites -> SUBSET (0 .. MaxDelay)]
  <2>1. \A m \in Sites : \A a \in flight[m] : a + 1 \in 0 .. MaxDelay
    BY <1>1, TablesNow, HeartbeatsAssumption
  <2> QED BY <1>1, <2>1
<1>5. recorded' \in [Sites -> SUBSET (0 .. AgeLimit)]
  <2>1. \A m \in Sites : \A a \in recorded[m] : Older(a) \in 0 .. AgeLimit
    BY TablesNow, OlderType
  <2> QED BY <1>1, <2>1
<1>6. quiet' \in [Sites -> 0 .. Interval]
  <2>1. \A m \in Sites : quiet[m] \in 0 .. Interval
    BY TablesNow
  <2>2. \A m \in Sites : (IF quiet[m] = Interval THEN Interval ELSE quiet[m] + 1) \in 0 .. Interval
    BY <2>1, HeartbeatsAssumption
  <2> QED BY <1>1, <2>2
<1> QED BY <1>1, <1>2, <1>3, <1>4, <1>5, <1>6, TablesNow, TablesPreserve

LEMMA HeartbeatsStep == HeartbeatsInv /\ [HeartbeatsNext]_heartbeatsVars => HeartbeatsInv'
<1> SUFFICES ASSUME HeartbeatsInv, [HeartbeatsNext]_heartbeatsVars PROVE HeartbeatsInv'
  OBVIOUS
<1>1. ASSUME NEW m \in Sites, CreateSite(m) PROVE HeartbeatsInv'
  BY <1>1, TablesNow, TablesPreserve DEF CreateSite
<1>2. ASSUME NEW m \in Sites, LaunchCheck(m) PROVE HeartbeatsInv'
  <2>1. flight' \in [Sites -> SUBSET (0 .. MaxDelay)] /\ quiet' \in [Sites -> 0 .. Interval]
    BY <1>2, TablesNow, HeartbeatsAssumption DEF LaunchCheck
  <2> QED BY <1>2, <2>1, TablesNow, TablesPreserve DEF LaunchCheck
<1>3. ASSUME NEW m \in Sites, DeleteSite(m) PROVE HeartbeatsInv'
  <2>1. /\ flight' = flight /\ quiet' = [quiet EXCEPT ![m] = Interval]
        /\ recorded' = [recorded EXCEPT ![m] = {}] /\ rows' = [rows EXCEPT ![m] = <<>>]
        /\ site' = site \ {m}
    BY <1>3 DEF DeleteSite, RowsWithout
  <2>2. TableInv(<<>>, {})
    BY EmptySeq DEF TableInv, Overlap, Complete
  <2>3. \A n \in Sites : TableInv(rows'[n], recorded'[n])
    BY <2>1, <2>2, TablesNow
  <2>4. /\ flight' \in [Sites -> SUBSET (0 .. MaxDelay)] /\ quiet' \in [Sites -> 0 .. Interval]
        /\ recorded' \in [Sites -> SUBSET (0 .. AgeLimit)]
    BY <2>1, TablesNow, HeartbeatsAssumption
  <2>5. rows' = [n \in Sites |-> rows'[n]] /\ site' \subseteq Sites
    BY <2>1, TablesNow
  <2>6. \A n \in Sites \ site' : rows'[n] = <<>>
    BY <2>1, TablesNow
  <2> QED BY <2>3, <2>4, <2>5, <2>6, TablesPreserve
<1>4. ASSUME HeartbeatsCrash PROVE HeartbeatsInv'
  BY <1>4, TablesNow, TablesPreserve, HeartbeatsAssumption DEF HeartbeatsCrash
<1>5. ASSUME NEW m \in Sites, InsertFails(m) PROVE HeartbeatsInv'
  <2>1. flight' \in [Sites -> SUBSET (0 .. MaxDelay)]
    BY <1>5, TablesNow DEF InsertFails
  <2> QED BY <1>5, <2>1, TablesNow, TablesPreserve DEF InsertFails
<1>6. CASE UNCHANGED heartbeatsVars
  BY <1>6, TablesNow, TablesPreserve DEF heartbeatsVars
<1> QED BY <1>1, <1>2, <1>3, <1>4, <1>5, <1>6, InsertPreserves, PrunePreserves,
           HeartbeatsTickPreserves DEF HeartbeatsNext

LEMMA HeartbeatsInvariant == HeartbeatsSpec => []HeartbeatsInv
  BY HeartbeatsStart, HeartbeatsStep, PTL DEF HeartbeatsSpec

\* The types of the tables; no row outlives its monitor.
THEOREM HeartbeatsTypes == HeartbeatsSpec => []HeartbeatsTypeOK
<1>1. HeartbeatsInv => HeartbeatsTypeOK
  BY DEF HeartbeatsInv
<1> QED BY <1>1, HeartbeatsInvariant, PTL
-----------------------------------------------------------------------------
(* What the queries answer.                                                *)

\* Of the rows after position i, those not older than since.
After(s, since, i) == {j \in DOMAIN s : s[j].age <= since /\ j > i}

LEMMA ListedMeans ==
  ASSUME NEW s \in Seq(Beats), NEW since \in Nat, NEW n \in Nat, NEW i \in DOMAIN s
  PROVE  i \in ListHeartbeats(s, since, n) <=>
           s[i].age <= since /\ Cardinality(After(s, since, i)) < n
<1>1. {j \in {k \in DOMAIN s : s[k].age <= since} : j > i} = After(s, since, i)
  BY DEF After
<1> QED BY <1>1 DEF ListHeartbeats

LEMMA AfterIsFinite ==
  ASSUME NEW s \in Seq(Beats), NEW since \in Nat, NEW i \in DOMAIN s
  PROVE  /\ IsFiniteSet(After(s, since, i))
         /\ Cardinality(After(s, since, i)) \in Nat
         /\ Cardinality(After(s, since, i)) <= Len(s) - i
<1>1. Len(s) \in Nat /\ DOMAIN s = 1 .. Len(s) /\ i \in 1 .. Len(s)
  BY LenProperties
<1>2. IsFiniteSet(i + 1 .. Len(s)) /\ Cardinality(i + 1 .. Len(s)) = Len(s) - i
  <2>1. i + 1 \in Int /\ Len(s) \in Int
    BY <1>1
  <2>2. /\ IsFiniteSet(i + 1 .. Len(s))
        /\ Cardinality(i + 1 .. Len(s)) =
             IF i + 1 > Len(s) THEN 0 ELSE Len(s) - (i + 1) + 1
    BY <2>1, FS_Interval
  <2> QED BY <1>1, <2>2
<1>3. After(s, since, i) \in SUBSET (i + 1 .. Len(s))
  BY <1>1 DEF After
<1>4. /\ IsFiniteSet(After(s, since, i))
      /\ Cardinality(After(s, since, i)) <= Cardinality(i + 1 .. Len(s))
  BY <1>2, <1>3, FS_Subset
<1> QED BY <1>2, <1>4, FS_CardinalityType

\* A query that reads a row reads every later one that is not older than since.
LEMMA ListedIsTail ==
  ASSUME NEW s \in Seq(Beats), NEW since \in Nat, NEW n \in Nat,
         NEW i \in DOMAIN s, i \in ListHeartbeats(s, since, n),
         NEW j \in DOMAIN s, j > i, s[j].age <= since
  PROVE  j \in ListHeartbeats(s, since, n)
<1>1. DOMAIN s = 1 .. Len(s) /\ Len(s) \in Nat
  BY LenProperties
<1>2. After(s, since, j) \in SUBSET After(s, since, i)
  BY <1>1 DEF After
<1>3. Cardinality(After(s, since, j)) <= Cardinality(After(s, since, i))
  BY <1>2, AfterIsFinite, FS_Subset
<1>4. Cardinality(After(s, since, i)) < n
  BY ListedMeans
<1>5. Cardinality(After(s, since, j)) < n
  BY <1>3, <1>4, AfterIsFinite
<1> QED BY <1>5, ListedMeans

\* The rows the loop of statusHistory sees of a block, and the one it keeps.
Seen(s, b) == {i \in ListHeartbeats(s, Window, Limit) : BlockOf(s[i].age) = b}

LEMMA HistoryShows ==
  ASSUME NEW s \in Seq(Beats), NEW b \in 0 .. Blocks - 1
  PROVE  /\ Seen(s, b) = {} => StatusHistory(s)[b] = "none"
         /\ Seen(s, b) # {} =>
              LET i == Shown(Seen(s, b))
              IN  /\ i \in Seen(s, b) /\ \A j \in Seen(s, b) : j <= i
                  /\ StatusHistory(s)[b] = s[i].status
                  /\ s[i].status \in {"up", "down"}
<1>1. StatusHistory(s)[b] =
        IF Seen(s, b) = {} THEN "none" ELSE s[Shown(Seen(s, b))].status
  BY DEF StatusHistory, Seen
<1>2. CASE Seen(s, b) = {}
  BY <1>1, <1>2
<1>3. CASE Seen(s, b) # {}
  <2>1. Len(s) \in Nat /\ DOMAIN s = 1 .. Len(s)
    BY LenProperties
  <2>2. Seen(s, b) \subseteq DOMAIN s
    BY DEF Seen, ListHeartbeats
  <2>3. Seen(s, b) \in SUBSET (0 .. Len(s))
    BY <2>1, <2>2
  <2>4. \E i \in Seen(s, b) : \A j \in Seen(s, b) : j <= i
    BY <1>3, <2>1, <2>3, GreatestExists
  <2>5. /\ Shown(Seen(s, b)) \in Seen(s, b)
        /\ \A j \in Seen(s, b) : j <= Shown(Seen(s, b))
    BY <2>4 DEF Shown
  <2>6. s[Shown(Seen(s, b))] \in Beats
    BY <2>1, <2>2, <2>5, ElementOfSeq
  <2>7. s[Shown(Seen(s, b))].status \in {"up", "down"}
    BY <2>6 DEF Beats
  <2> QED BY <1>1, <1>3, <2>5, <2>7
<1> QED BY <1>2, <1>3

\* The row that is shown is the last of its hour, read by the page or not.
LEMMA ShownIsLast ==
  ASSUME NEW s \in Seq(Beats), NEW b \in 0 .. Blocks - 1, Seen(s, b) # {},
         NEW j \in DOMAIN s, s[j].age <= Window, BlockOf(s[j].age) = b
  PROVE  j <= Shown(Seen(s, b))
<1> DEFINE i == Shown(Seen(s, b))
<1>1. i \in Seen(s, b) /\ \A k \in Seen(s, b) : k <= i
  BY HistoryShows
<1>2. i \in DOMAIN s /\ i \in ListHeartbeats(s, Window, Limit)
  BY <1>1 DEF Seen, ListHeartbeats
<1>3. DOMAIN s = 1 .. Len(s) /\ Len(s) \in Nat
  BY LenProperties
<1> HIDE DEF i
<1>4. SUFFICES ASSUME j > i PROVE FALSE
  BY <1>2, <1>3 DEF i
<1>5. j \in ListHeartbeats(s, Window, Limit)
  BY <1>2, <1>4, ListedIsTail, WindowType, HeartbeatsAssumption
<1>6. j <= i
  BY <1>1, <1>5 DEF Seen
<1> QED BY <1>2, <1>3, <1>4, <1>6

\* Each block shows a check of its hour that none of that hour is newer than by
\* more than a check may take.
THEOREM HistoryIsOfItsHour == HeartbeatsSpec => []HistoryIsRecent
<1>1. HeartbeatsInv => HistoryIsRecent
  <2> SUFFICES ASSUME HeartbeatsInv, NEW m \in Sites, NEW b \in 0 .. Blocks - 1,
                      StatusHistory(rows[m])[b] # "none"
               PROVE  LET s == rows[m]
                          hour == {i \in DOMAIN s : s[i].age <= Window /\ BlockOf(s[i].age) = b}
                      IN  \E i \in hour : /\ s[i].status = StatusHistory(s)[b]
                                          /\ \A j \in hour : s[i].age - s[j].age <= MaxDelay
    BY DEF HistoryIsRecent
  <2> DEFINE s == rows[m]
             hour == {i \in DOMAIN s : s[i].age <= Window /\ BlockOf(s[i].age) = b}
             i == Shown(Seen(s, b))
  <2>1. s \in Seq(Beats) /\ Overlap(s)
    BY TablesNow DEF TableInv
  <2>2. DOMAIN s = 1 .. Len(s) /\ Len(s) \in Nat /\ \A j \in 1 .. Len(s) : s[j].age \in Int
    BY <2>1, RowTypes
  <2> HIDE DEF s
  <2>3. Seen(s, b) # {}
    BY <2>1, HistoryShows DEF s
  <2>4. i \in Seen(s, b) /\ StatusHistory(s)[b] = s[i].status
    BY <2>1, <2>3, HistoryShows
  <2>5. i \in hour
    BY <2>4 DEF Seen, ListHeartbeats
  <2>6. \A j \in hour : j <= i
    BY <2>1, <2>3, ShownIsLast
  <2> HIDE DEF i
  <2>7. ASSUME NEW j \in hour PROVE s[i].age - s[j].age <= MaxDelay
    <3>1. j < i \/ j = i
      BY <2>2, <2>5, <2>6
    <3>2. CASE j < i
      BY <2>1, <2>5, <3>2 DEF Overlap
    <3>3. CASE j = i
      BY <2>2, <2>5, <3>3, HeartbeatsAssumption
    <3> QED BY <3>1, <3>2, <3>3
  <2> QED BY <2>4, <2>5, <2>7 DEF s
<1> QED BY <1>1, HeartbeatsInvariant, PTL

\* An hour with a check is shown as one without data only where the table of the
\* monitor has grown to what a prune keeps or past what the page reads.
THEOREM GapsAreExplained == HeartbeatsSpec => []GapsAreCuts
<1>1. HeartbeatsInv => GapsAreCuts
  <2> SUFFICES ASSUME HeartbeatsInv, NEW m \in Sites, NEW a \in recorded[m], a <= Window,
                      StatusHistory(rows[m])[BlockOf(a)] = "none",
                      Len(rows[m]) < Keep, Len(rows[m]) <= Limit
               PROVE  FALSE
    <3>1. \A n \in Sites : Len(rows[n]) \in Nat
      BY TablesNow, LenProperties DEF TableInv
    <3> QED BY <3>1, HeartbeatsAssumption DEF GapsAreCuts
  <2> DEFINE s == rows[m]
  <2>1. s \in Seq(Beats) /\ Complete(s, recorded[m])
    BY TablesNow DEF TableInv
  <2>2. DOMAIN s = 1 .. Len(s) /\ Len(s) \in Nat
    BY <2>1, LenProperties
  <2>3. PICK i \in DOMAIN s : s[i].age = a
    BY <2>1 DEF Complete
  <2>4. a \in 0 .. Window /\ BlockOf(a) \in 0 .. Blocks - 1
    <3>1. a \in 0 .. Window
      BY TablesNow, WindowType
    <3> QED BY <3>1, BlockOfType
  <2> HIDE DEF s
  <2>5. Cardinality(After(s, Window, i)) < Limit
    <3>1. /\ Cardinality(After(s, Window, i)) \in Nat
          /\ Cardinality(After(s, Window, i)) <= Len(s) - i
      BY <2>1, AfterIsFinite, WindowType
    <3>2. Len(s) - i < Limit /\ Len(s) - i \in Int
      BY <2>2, HeartbeatsAssumption DEF s
    <3> QED BY <3>1, <3>2, HeartbeatsAssumption
  <2>6. i \in ListHeartbeats(s, Window, Limit)
    BY <2>1, <2>3, <2>4, <2>5, ListedMeans, WindowType, HeartbeatsAssumption
  <2>7. i \in Seen(s, BlockOf(a))
    BY <2>3, <2>6 DEF Seen
  <2>8. StatusHistory(s)[BlockOf(a)] \in {"up", "down"}
    <3>1. Seen(s, BlockOf(a)) # {}
      BY <2>7
    <3> QED BY <2>1, <2>4, <3>1, HistoryShows
  <2> QED BY <2>8 DEF s
<1> QED BY <1>1, HeartbeatsInvariant, PTL
-----------------------------------------------------------------------------
(* What a prune leaves of the answers.                                     *)

LEMMA LatestStays ==
  ASSUME NEW s \in Seq(Beats)
  PROVE  LatestHeartbeat(PrunedTable(s)) = LatestHeartbeat(s)
<1>1. Len(s) \in Nat /\ DOMAIN s = 1 .. Len(s)
  BY RowTypes
<1>2. CASE Len(s) <= Keep
  BY <1>2 DEF PrunedTable
<1>3. CASE Len(s) > Keep
  <2> DEFINE t == PrunedTable(s)
             off == Len(s) - Keep
  <2>1. /\ off \in Nat /\ off + Keep = Len(s) /\ Len(t) = Keep /\ DOMAIN t = 1 .. Keep
        /\ \A i \in 1 .. Keep : t[i] = s[i + off]
    BY <1>3, PrunedShifts
  <2> HIDE DEF t, off
  <2>2. Keep \in 1 .. Keep /\ Keep + off = Len(s) /\ Len(s) \in 1 .. Len(s)
    <3> DEFINE n == Len(s)
    <3>1. off \in Nat /\ off + Keep = n /\ Keep \in Nat /\ Keep > 0
      BY <2>1, HeartbeatsAssumption
    <3> HIDE DEF n
    <3>2. Keep \in 1 .. Keep /\ Keep + off = n /\ n \in 1 .. n
      BY <3>1
    <3> QED BY <3>2 DEF n
  <2>3. {i \in DOMAIN t : i = Len(t)} = {Keep} /\ {i \in DOMAIN s : i = Len(s)} = {Len(s)}
    BY <1>1, <2>1, <2>2
  <2>4. t[Keep] = s[Len(s)]
    BY <2>1, <2>2
  <2>5. LatestHeartbeat(t) = {t[Keep]} /\ LatestHeartbeat(s) = {s[Len(s)]}
    BY <2>3 DEF LatestHeartbeat
  <2> QED BY <2>4, <2>5 DEF t
<1> QED BY <1>1, <1>2, <1>3, HeartbeatsAssumption

\* A row that stays has as many rows after it as before.
LEMMA AfterShifts ==
  ASSUME NEW s \in Seq(Beats), Len(s) > Keep, NEW since \in Nat, NEW i \in 1 .. Keep
  PROVE  LET off == Len(s) - Keep
         IN  Cardinality(After(PrunedTable(s), since, i)) = Cardinality(After(s, since, i + off))
<1> DEFINE t == PrunedTable(s)
           off == Len(s) - Keep
           S == After(t, since, i)
           T == After(s, since, i + off)
           f == [j \in S |-> j + off]
<1>1. /\ off \in Nat /\ off + Keep = Len(s) /\ t \in Seq(Beats) /\ DOMAIN t = 1 .. Keep
      /\ \A j \in 1 .. Keep : t[j] = s[j + off]
  BY PrunedShifts
<1>2. Len(s) \in Nat /\ DOMAIN s = 1 .. Len(s)
  BY RowTypes
<1>3. i + off \in DOMAIN s
  BY <1>1, <1>2, HeartbeatsAssumption
<1>4. IsFiniteSet(T)
  BY <1>3, AfterIsFinite
<1> HIDE DEF t, off
<1>5. ASSUME NEW j \in S PROVE j \in 1 .. Keep /\ j + off \in T
  <2>1. j \in 1 .. Keep /\ t[j].age <= since /\ j > i
    BY <1>1 DEF After
  <2>2. j + off \in DOMAIN s /\ j + off > i + off /\ s[j + off].age <= since
    BY <1>1, <1>2, <2>1, HeartbeatsAssumption
  <2> QED BY <2>1, <2>2 DEF After
<1>6. ASSUME NEW k \in T PROVE \E j \in S : k = j + off
  <2>1. k \in 1 .. Len(s) /\ s[k].age <= since /\ k > i + off
    BY <1>2 DEF After
  <2>2. k - off \in 1 .. Keep /\ k - off > i /\ k = (k - off) + off
    BY <1>1, <1>2, <2>1, HeartbeatsAssumption
  <2>3. t[k - off].age <= since
    BY <1>1, <2>1, <2>2
  <2>4. k - off \in S
    BY <1>1, <2>2, <2>3 DEF After
  <2> QED BY <2>2, <2>4
<1>7. f \in [S -> T] /\ \A j \in S : f[j] = j + off
  BY <1>5
<1>8. \A j, k \in S : f[j] = f[k] => j = k
  BY <1>1, <1>5, <1>7, HeartbeatsAssumption
<1>9. f \in Injection(S, T)
  <2> HIDE DEF f, S, T
  <2> QED BY <1>7, <1>8 DEF Injection, IsInjective
<1>10. f \in Surjection(S, T)
  <2> HIDE DEF f
  <2>1. \A k \in T : \E j \in S : f[j] = k
    BY <1>6, <1>7
  <2> HIDE DEF S, T
  <2> QED BY <1>7, <2>1 DEF Surjection
<1> HIDE DEF f, S, T
<1>11. Cardinality(S) = Cardinality(T)
  BY <1>4, <1>9, <1>10, FS_Injection
<1> QED BY <1>11 DEF S, T, t, off

\* In a table in the order of the times, a query for as many rows as a prune keeps
\* reads none that the prune drops.
LEMMA AnswerStays ==
  ASSUME NEW s \in Seq(Beats), InOrder(s), NEW since \in Nat, NEW n \in 1 .. Keep
  PROVE  Answer(PrunedTable(s), since, n) = Answer(s, since, n)
<1>1. Len(s) \in Nat /\ DOMAIN s = 1 .. Len(s) /\ \A i \in DOMAIN s : s[i].age \in Int
  BY RowTypes
<1>2. CASE Len(s) <= Keep
  BY <1>2 DEF PrunedTable
<1>3. CASE Len(s) > Keep
  <2> DEFINE t == PrunedTable(s)
             off == Len(s) - Keep
  <2>1. /\ off \in Nat /\ off + Keep = Len(s) /\ t \in Seq(Beats) /\ DOMAIN t = 1 .. Keep
        /\ \A i \in 1 .. Keep : t[i] = s[i + off]
        /\ \A i \in 1 .. Keep :
             Cardinality(After(t, since, i)) = Cardinality(After(s, since, i + off))
    BY <1>3, PrunedShifts, AfterShifts
  <2> HIDE DEF t, off
  <2>2. ASSUME NEW i \in 1 .. Keep
        PROVE  /\ i + off \in DOMAIN s
               /\ i \in ListHeartbeats(t, since, n) <=> i + off \in ListHeartbeats(s, since, n)
    <3>1. i + off \in DOMAIN s /\ i \in DOMAIN t
      BY <1>1, <2>1, HeartbeatsAssumption
    <3>2. t[i].age = s[i + off].age /\ n \in Nat
      BY <2>1, HeartbeatsAssumption
    <3>3. i \in ListHeartbeats(t, since, n) <=>
            t[i].age <= since /\ Cardinality(After(t, since, i)) < n
      BY <2>1, <3>1, <3>2, ListedMeans
    <3>4. i + off \in ListHeartbeats(s, since, n) <=>
            s[i + off].age <= since /\ Cardinality(After(s, since, i + off)) < n
      BY <3>1, <3>2, ListedMeans
    <3> QED BY <2>1, <3>1, <3>2, <3>3, <3>4
  <2>3. ASSUME NEW k \in DOMAIN s, k \in ListHeartbeats(s, since, n)
        PROVE  k > off
    <3>1. SUFFICES ASSUME k <= off PROVE FALSE
      BY <1>1, <2>1
    <3>2. s[k].age <= since /\ Cardinality(After(s, since, k)) < n
      BY <2>3, ListedMeans
    <3>3. off + 1 .. Len(s) \in SUBSET After(s, since, k)
      <4> SUFFICES ASSUME NEW j \in off + 1 .. Len(s) PROVE j \in After(s, since, k)
        OBVIOUS
      <4>1. j \in DOMAIN s /\ k < j
        BY <1>1, <2>1, <3>1
      <4>2. s[j].age < s[k].age
        BY <4>1 DEF InOrder
      <4>3. s[j].age <= since
        BY <1>1, <3>2, <4>1, <4>2
      <4> QED BY <4>1, <4>3 DEF After
    <3>4. Cardinality(off + 1 .. Len(s)) = Keep
      <4>1. off + 1 \in Int /\ Len(s) \in Int /\ off + 1 <= Len(s)
        BY <1>1, <2>1, HeartbeatsAssumption
      <4>2. Cardinality(off + 1 .. Len(s)) =
              IF off + 1 > Len(s) THEN 0 ELSE Len(s) - (off + 1) + 1
        BY <4>1, FS_Interval
      <4> QED BY <2>1, <4>1, <4>2, HeartbeatsAssumption
    <3>5. Keep <= Cardinality(After(s, since, k)) /\ Cardinality(After(s, since, k)) \in Nat
      BY <3>3, <3>4, AfterIsFinite, FS_Subset
    <3> QED BY <3>2, <3>5, HeartbeatsAssumption
  <2>4. Answer(t, since, n) \subseteq Answer(s, since, n)
    <3> SUFFICES ASSUME NEW i \in ListHeartbeats(t, since, n)
                 PROVE  t[i] \in Answer(s, since, n)
      BY DEF Answer
    <3>1. i \in 1 .. Keep
      BY <2>1 DEF ListHeartbeats
    <3> QED BY <2>1, <2>2, <3>1 DEF Answer
  <2>5. Answer(s, since, n) \subseteq Answer(t, since, n)
    <3> SUFFICES ASSUME NEW k \in ListHeartbeats(s, since, n)
                 PROVE  s[k] \in Answer(t, since, n)
      BY DEF Answer
    <3>1. k \in DOMAIN s
      BY DEF ListHeartbeats
    <3>2. k - off \in 1 .. Keep /\ (k - off) + off = k
      BY <1>1, <2>1, <2>3, <3>1, HeartbeatsAssumption
    <3>3. k - off \in ListHeartbeats(t, since, n) /\ t[k - off] = s[k]
      BY <2>1, <2>2, <3>2
    <3> QED BY <3>3 DEF Answer
  <2> QED BY <2>4, <2>5 DEF t
<1> QED BY <1>1, <1>2, <1>3, HeartbeatsAssumption

\* A query for as many rows as a prune keeps does not notice it while the rows are
\* in the order of their times; the latest row never changes.
THEOREM PruningIsUnnoticed == HeartbeatsSpec => PruneIsInvisible
<1>1. HeartbeatsInv /\ [HeartbeatsNext]_heartbeatsVars =>
        [Prune =>
           \A m \in Sites :
             /\ LatestHeartbeat(rows'[m]) = LatestHeartbeat(rows[m])
             /\ InOrder(rows[m]) =>
                  \A since \in 0 .. Window, n \in 1 .. Keep :
                    Answer(rows'[m], since, n) = Answer(rows[m], since, n)]_heartbeatsVars
  <2> SUFFICES ASSUME HeartbeatsInv, Prune, NEW m \in Sites
               PROVE  /\ LatestHeartbeat(rows'[m]) = LatestHeartbeat(rows[m])
                      /\ InOrder(rows[m]) =>
                           \A since \in 0 .. Window, n \in 1 .. Keep :
                             Answer(rows'[m], since, n) = Answer(rows[m], since, n)
    OBVIOUS
  <2>1. rows'[m] = PrunedTable(rows[m])
    BY DEF Prune, PrunedTable
  <2>2. rows[m] \in Seq(Beats)
    BY TablesNow DEF TableInv
  <2> QED BY <2>1, <2>2, LatestStays, AnswerStays, WindowType
<1> QED BY <1>1, HeartbeatsInvariant, PTL DEF HeartbeatsSpec, PruneIsInvisible
=============================================================================
