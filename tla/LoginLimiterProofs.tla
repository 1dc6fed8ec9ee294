-------------------------- MODULE LoginLimiterProofs --------------------------
(***************************************************************************)
(* The blocks and counts of the limiter, for any number of keys and of     *)
(* attempts in flight, any limits and any memory.                          *)
(*                                                                         *)
(* The invariant needs of the doubling only its bounds.  That no failure   *)
(* shortens a block needs what Doubled computes: a recursive function,     *)
(* which exists because every start of it does.                            *)
(***************************************************************************)
EXTENDS LoginLimiter, Extremes

\* What a record says of its block.
Until(n, quiet) ==
  IF n >= Intentos /\ Block(n) - quiet > Never THEN Block(n) - quiet ELSE Never

RecordInv(r) == r \in Records /\ r.left = Until(r.fallos, r.quiet)

LimiterInv == LimiterTypeOK /\ \A k \in Keys : RecordInv(intentos[k])
-----------------------------------------------------------------------------
LEMMA BlockBounds ==
  ASSUME NEW n \in 0 .. FallosCap
  PROVE  Block(n) \in 0 .. BloqueoMaximo /\ (n < Intentos => Block(n) = 0)
BY LimiterAssumption DEF Block

LEMMA NoRecordInv == RecordInv(NoRecord) /\ NoRecord.fallos = 0 /\ NoRecord.left = Never
<1>1. /\ NoRecord \in Records /\ NoRecord.fallos = 0 /\ NoRecord.left = Never
      /\ NoRecord.quiet = 0
  BY LimiterAssumption DEF NoRecord, Records, Never
<1>2. Until(0, 0) = Never
  BY LimiterAssumption DEF Until
<1> QED BY <1>1, <1>2 DEF RecordInv

\* The fields of a record, and what the block means for a reader.
LEMMA RecordFields ==
  ASSUME NEW r, RecordInv(r)
  PROVE  /\ r.fallos \in 0 .. FallosCap /\ r.quiet \in 0 .. QuietCap
         /\ r.left \in Never .. BloqueoMaximo
         /\ Block(r.fallos) \in 0 .. BloqueoMaximo
         /\ r.left > 0 => r.fallos >= Intentos /\ r.left = Block(r.fallos) - r.quiet
<1>1. /\ r.fallos \in 0 .. FallosCap /\ r.quiet \in 0 .. QuietCap
      /\ r.left \in Never .. BloqueoMaximo
  BY DEF RecordInv, Records
<1>2. Block(r.fallos) \in 0 .. BloqueoMaximo
  BY <1>1, BlockBounds
<1>3. ~(Never > 0)
  BY LimiterAssumption DEF Never
<1> QED BY <1>1, <1>2, <1>3 DEF RecordInv, Until

\* A cleanup drops only what has no block in force, at whatever reading.
LEMMA LimpioInv ==
  ASSUME LimiterInv, NEW k \in Keys, NEW age \in 0 .. MaxLate
  PROVE  /\ RecordInv(Limpio(k, age))
         /\ \/ Limpio(k, age) = intentos[k]
            \/ /\ Limpio(k, age) = NoRecord
               /\ intentos[k].left <= 0 /\ intentos[k].quiet > Memoria
<1>1. RecordInv(intentos[k])
  BY DEF LimiterInv
<1>2. intentos[k].left \in Int /\ intentos[k].quiet \in Int /\ age \in Nat
  BY <1>1, RecordFields, LimiterAssumption DEF Never
<1>3. CASE Restante(intentos[k], age) = 0 /\ intentos[k].quiet - age > Memoria
  <2>1. intentos[k].left <= 0 /\ intentos[k].quiet > Memoria
    BY <1>2, <1>3, LimiterAssumption DEF Restante
  <2> QED BY <1>1, <2>1, NoRecordInv DEF Limpio
<1>4. CASE ~(Restante(intentos[k], age) = 0 /\ intentos[k].quiet - age > Memoria)
  BY <1>1, <1>4 DEF Limpio
<1> QED BY <1>3, <1>4

\* A failure starts the block its count demands, at its reading of the clock.
LEMMA AnotadoInv ==
  ASSUME NEW r, RecordInv(r), NEW age \in 0 .. MaxLate
  PROVE  /\ RecordInv(Anotado(r, age))
         /\ Anotado(r, age).fallos = IF r.fallos < FallosCap THEN r.fallos + 1 ELSE FallosCap
         /\ Anotado(r, age).fallos >= Intentos =>
              Anotado(r, age).left = Block(Anotado(r, age).fallos) - age
<1> DEFINE n == IF r.fallos < FallosCap THEN r.fallos + 1 ELSE FallosCap
           b == IF n < Intentos THEN r.left ELSE Block(n) - age
           x == [fallos |-> n, left |-> b, quiet |-> age]
<1>1. n \in 0 .. FallosCap /\ (n < Intentos => r.fallos < Intentos)
  BY RecordFields, LimiterAssumption
<1>2. Block(n) \in 0 .. BloqueoMaximo
  BY <1>1, BlockBounds
<1>3. Anotado(r, age) = x
  BY DEF Anotado
<1>4. b = Until(n, age) /\ b \in Never .. BloqueoMaximo /\ (n >= Intentos => b = Block(n) - age)
  <2>1. CASE n < Intentos
    <3>1. r.left = Never
      BY <1>1, <2>1, RecordFields, LimiterAssumption DEF RecordInv, Until
    <3> QED BY <1>1, <2>1, <3>1, LimiterAssumption DEF Until, Never
  <2>2. CASE ~(n < Intentos)
    <3>1. n >= Intentos
      BY <1>1, <2>2, LimiterAssumption
    <3>2. b = Block(n) - age
      BY <2>2
    <3>3. Block(n) - age >= Never /\ Block(n) - age <= BloqueoMaximo
      BY <1>2, LimiterAssumption DEF Never
    <3> HIDE DEF b, n
    <3> QED BY <1>2, <3>1, <3>2, <3>3, LimiterAssumption DEF Until, Never
  <2> QED BY <2>1, <2>2
<1> HIDE DEF n, b
<1>5. age \in 0 .. QuietCap
  BY LimiterAssumption
<1>6. x \in Records /\ x.fallos = n /\ x.left = b /\ x.quiet = age
  BY <1>1, <1>4, <1>5 DEF Records
<1> HIDE DEF x
<1>7. RecordInv(x)
  BY <1>4, <1>6 DEF RecordInv
<1> QED BY <1>3, <1>4, <1>6, <1>7 DEF n

\* Time shortens a block by one and is never lost: QuietCap exceeds every block.
LEMMA AgedInv ==
  ASSUME NEW r, RecordInv(r)
  PROVE  RecordInv(Aged(r)) /\ Aged(r).fallos = r.fallos
<1>1. CASE r.fallos = 0
  BY <1>1 DEF Aged
<1>2. CASE r.fallos # 0
  <2> DEFINE left == IF r.left = Never THEN r.left ELSE r.left - 1
             quiet == IF r.quiet = QuietCap THEN r.quiet ELSE r.quiet + 1
             x == [r EXCEPT !.left = left, !.quiet = quiet]
  <2>1. r \in Records /\ r.left = Until(r.fallos, r.quiet)
    BY DEF RecordInv
  <2>2. Aged(r) = x
    BY <1>2 DEF Aged
  <2>3. left \in Never .. BloqueoMaximo /\ quiet \in 0 .. QuietCap
    BY RecordFields, LimiterAssumption DEF Never
  <2>4. left = Until(r.fallos, quiet)
    BY <2>1, RecordFields, LimiterAssumption DEF Until, Never
  <2> HIDE DEF left, quiet
  <2>5. x \in Records /\ x.fallos = r.fallos /\ x.left = left /\ x.quiet = quiet
    BY <2>1, <2>3 DEF Records
  <2> HIDE DEF x
  <2> QED BY <2>2, <2>4, <2>5 DEF RecordInv
<1> QED BY <1>1, <1>2
-----------------------------------------------------------------------------
LEMMA LimiterStart == LimiterInit => LimiterInv
<1> SUFFICES ASSUME LimiterInit PROVE LimiterInv
  OBVIOUS
<1>1. \A k \in Keys : intentos[k] = NoRecord
  BY DEF LimiterInit
<1>2. LimiterTypeOK
  BY <1>1, NoRecordInv, LimiterAssumption
     DEF LimiterInit, LimiterTypeOK, RecordInv, AttemptStates
<1> QED BY <1>1, <1>2, NoRecordInv DEF LimiterInv

\* Every step replaces the records, the clock of the cleanup and the attempts.
LEMMA RecordsPreserve ==
  ASSUME limpieza' \in 0 .. Intervalo + MaxLate, attempt' \in [Attempts -> AttemptStates],
         intentos' = [k \in Keys |-> intentos'[k]],
         \A k \in Keys : RecordInv(intentos'[k])
  PROVE  LimiterInv'
<1>1. intentos' \in [Keys -> Records]
  BY DEF RecordInv
<1>2. LimiterTypeOK'
  BY <1>1 DEF LimiterTypeOK
<1>3. (\A k \in Keys : RecordInv(intentos[k]))'
  BY DEF RecordInv, Until
<1> QED BY <1>2, <1>3 DEF LimiterInv

LEMMA LimpiadaType ==
  ASSUME LimiterTypeOK, NEW age \in 0 .. MaxLate
  PROVE  Limpiada(age) \in 0 .. Intervalo + MaxLate
BY LimiterAssumption DEF LimiterTypeOK, Limpiada

\* An attempt that is being served has its keys and the age of its reading.
LEMMA AttemptType ==
  ASSUME LimiterTypeOK, NEW a \in Attempts, attempt[a] # NoAttempt
  PROVE  /\ attempt[a] \in [stage : {"asking", "comparing", "failing"}, user : Users,
                            ip : Ips, age : 0 .. MaxLate]
         /\ attempt[a].age \in 0 .. MaxLate
BY DEF LimiterTypeOK, AttemptStates

LEMMA Busy ==
  ASSUME NEW a \in Attempts, attempt[a].stage \in {"asking", "comparing", "failing"}
  PROVE  attempt[a] # NoAttempt
BY DEF NoAttempt

LEMMA EsperaReadsPreserves ==
  ASSUME LimiterInv, NEW a \in Attempts, EsperaReads(a)
  PROVE  LimiterInv'
<1>1. PICK u \in Users, i \in Ips :
        attempt' = [attempt EXCEPT ![a] =
                      [stage |-> "asking", user |-> u, ip |-> i, age |-> 0]]
  BY DEF EsperaReads
<1>2. [stage |-> "asking", user |-> u, ip |-> i, age |-> 0] \in AttemptStates
  BY LimiterAssumption DEF AttemptStates
<1> QED BY <1>1, <1>2 DEF EsperaReads, LimiterInv, LimiterTypeOK, RecordInv, Until

LEMMA EsperaPreserves ==
  ASSUME LimiterInv, NEW a \in Attempts, Espera(a)
  PROVE  LimiterInv'
<1> DEFINE age == attempt[a].age
           entered == [attempt[a] EXCEPT !.stage = "comparing", !.age = 0]
<1>1. /\ attempt[a].stage = "asking"
      /\ intentos' = [k \in Keys |-> Limpio(k, age)] /\ limpieza' = Limpiada(age)
      /\ \/ attempt' = [attempt EXCEPT ![a] = entered]
         \/ attempt' = [attempt EXCEPT ![a] = NoAttempt]
  BY DEF Espera
<1>2. /\ attempt[a] \in [stage : {"asking", "comparing", "failing"}, user : Users, ip : Ips,
                         age : 0 .. MaxLate]
      /\ age \in 0 .. MaxLate
  BY <1>1, Busy, AttemptType DEF LimiterInv
<1>3. entered \in AttemptStates /\ NoAttempt \in AttemptStates
  <2>1. 0 \in 0 .. MaxLate
    BY LimiterAssumption
  <2>2. entered \in [stage : {"asking", "comparing", "failing"}, user : Users, ip : Ips,
                     age : 0 .. MaxLate]
    BY <1>2, <2>1
  <2> QED BY <2>2 DEF AttemptStates
<1> HIDE DEF entered, age
<1>4. attempt' \in [Attempts -> AttemptStates]
  BY <1>1, <1>3 DEF LimiterInv, LimiterTypeOK
<1>5. \A k \in Keys : RecordInv(intentos'[k])
  BY <1>1, <1>2, LimpioInv
<1>6. limpieza' \in 0 .. Intervalo + MaxLate
  BY <1>1, <1>2, LimpiadaType DEF LimiterInv
<1>7. intentos' = [k \in Keys |-> intentos'[k]]
  BY <1>1
<1> QED BY <1>4, <1>5, <1>6, <1>7, RecordsPreserve

LEMMA FalloReadsPreserves ==
  ASSUME LimiterInv, NEW a \in Attempts, FalloReads(a)
  PROVE  LimiterInv'
<1> DEFINE read == [attempt[a] EXCEPT !.stage = "failing"]
<1>1. attempt[a].stage = "comparing" /\ attempt' = [attempt EXCEPT ![a] = read]
  BY DEF FalloReads
<1>2. read \in AttemptStates
  BY <1>1, Busy, AttemptType DEF LimiterInv, AttemptStates
<1> HIDE DEF read
<1> QED BY <1>1, <1>2 DEF FalloReads, LimiterInv, LimiterTypeOK, RecordInv, Until

\* What fallo leaves of a record.
LEMMA FalloRecord ==
  ASSUME LimiterInv, NEW a \in Attempts, Fallo(a), NEW k \in Keys
  PROVE  /\ attempt[a].age \in 0 .. MaxLate
         /\ \/ intentos'[k] = Limpio(k, attempt[a].age)
            \/ /\ k \in KeysOf(a)
               /\ intentos'[k] = Anotado(Limpio(k, attempt[a].age), attempt[a].age)
<1>1. attempt[a].age \in 0 .. MaxLate
  BY Busy, AttemptType DEF Fallo, LimiterInv
<1> QED BY <1>1 DEF Fallo

LEMMA FalloPreserves ==
  ASSUME LimiterInv, NEW a \in Attempts, Fallo(a)
  PROVE  LimiterInv'
<1>1. /\ intentos' = [k \in Keys |-> intentos'[k]]
      /\ limpieza' = Limpiada(attempt[a].age) /\ attempt' = [attempt EXCEPT ![a] = NoAttempt]
  BY DEF Fallo
<1>2. attempt' \in [Attempts -> AttemptStates]
  BY <1>1 DEF LimiterInv, LimiterTypeOK, AttemptStates
<1>3. attempt[a].age \in 0 .. MaxLate
  BY Busy, AttemptType DEF Fallo, LimiterInv
<1>4. \A k \in Keys : RecordInv(intentos'[k])
  BY <1>3, FalloRecord, LimpioInv, AnotadoInv
<1>5. limpieza' \in 0 .. Intervalo + MaxLate
  BY <1>1, <1>3, LimpiadaType DEF LimiterInv
<1> QED BY <1>1, <1>2, <1>4, <1>5, RecordsPreserve

LEMMA ExitoPreserves ==
  ASSUME LimiterInv, NEW a \in Attempts, Exito(a)
  PROVE  LimiterInv'
<1>1. /\ intentos' = [k \in Keys |-> IF k \in KeysOf(a) THEN NoRecord ELSE intentos[k]]
      /\ limpieza' = limpieza /\ attempt' = [attempt EXCEPT ![a] = NoAttempt]
  BY DEF Exito
<1>2. attempt' \in [Attempts -> AttemptStates] /\ limpieza' \in 0 .. Intervalo + MaxLate
  BY <1>1 DEF LimiterInv, LimiterTypeOK, AttemptStates
<1>3. \A k \in Keys : RecordInv(intentos'[k])
  BY <1>1, NoRecordInv DEF LimiterInv
<1> QED BY <1>1, <1>2, <1>3, RecordsPreserve

LEMMA LimiterTickPreserves ==
  ASSUME LimiterInv, LimiterTick
  PROVE  LimiterInv'
<1>1. intentos' = [k \in Keys |-> Aged(intentos[k])]
  BY DEF LimiterTick
<1>2. limpieza' \in 0 .. Intervalo + MaxLate
  BY LimiterAssumption DEF LimiterTick, LimiterInv, LimiterTypeOK
<1>3. attempt' \in [Attempts -> AttemptStates]
  <2>1. ASSUME NEW a \in Attempts PROVE attempt'[a] \in AttemptStates
    <3>1. CASE OnTheClock(a)
      <4> DEFINE late == [attempt[a] EXCEPT !.age = attempt[a].age + 1]
      <4>1. attempt'[a] = late /\ attempt[a].age < MaxLate
        BY <3>1 DEF LimiterTick
      <4>2. /\ attempt[a] \in [stage : {"asking", "comparing", "failing"}, user : Users,
                               ip : Ips, age : 0 .. MaxLate]
            /\ attempt[a].age + 1 \in 0 .. MaxLate
        BY <3>1, <4>1, Busy, AttemptType, LimiterAssumption DEF OnTheClock, LimiterInv
      <4>3. late \in AttemptStates
        BY <4>2 DEF AttemptStates
      <4> QED BY <4>1, <4>3
    <3>2. CASE ~OnTheClock(a)
      BY <3>2 DEF LimiterTick, LimiterInv, LimiterTypeOK
    <3> QED BY <3>1, <3>2
  <2>2. attempt' = [a \in Attempts |-> attempt'[a]]
    BY DEF LimiterTick
  <2> QED BY <2>1, <2>2
<1>4. \A k \in Keys : RecordInv(intentos'[k])
  BY <1>1, AgedInv DEF LimiterInv
<1> QED BY <1>1, <1>2, <1>3, <1>4, RecordsPreserve

LEMMA LimiterStep == LimiterInv /\ [LimiterNext]_limiterVars => LimiterInv'
<1> SUFFICES ASSUME LimiterInv, [LimiterNext]_limiterVars PROVE LimiterInv'
  OBVIOUS
<1>1. CASE UNCHANGED limiterVars
  BY <1>1 DEF limiterVars, LimiterInv, LimiterTypeOK, RecordInv, Until
<1> QED BY <1>1, EsperaReadsPreserves, EsperaPreserves, FalloReadsPreserves, FalloPreserves,
        ExitoPreserves, LimiterTickPreserves
        DEF LimiterNext

LEMMA LimiterInvariant == LimiterSpec => []LimiterInv
  BY LimiterStart, LimiterStep, PTL DEF LimiterSpec
-----------------------------------------------------------------------------
\* The types of the maps and of the attempts in flight.
THEOREM LimiterTypes == LimiterSpec => []LimiterTypeOK
<1>1. LimiterInv => LimiterTypeOK
  BY DEF LimiterInv
<1> QED BY <1>1, LimiterInvariant, PTL

\* A key is blocked for exactly what its count demands from the reading of the
\* clock of the failure counted last, whatever the reading of who asks.
THEOREM BlocksAreExact == LimiterSpec => []BlockMatchesFailures
<1>1. LimiterInv => BlockMatchesFailures
  <2> SUFFICES ASSUME LimiterInv, NEW k \in Keys, NEW age \in 0 .. MaxLate
               PROVE  LET r     == intentos[k]
                          since == r.quiet - age
                      IN  Restante(r, age) = IF r.fallos >= Intentos /\ since < Block(r.fallos)
                                             THEN Block(r.fallos) - since ELSE 0
    BY DEF BlockMatchesFailures
  <2>1. RecordInv(intentos[k])
    BY DEF LimiterInv
  <2>2. intentos[k].left = Until(intentos[k].fallos, intentos[k].quiet)
    BY <2>1 DEF RecordInv
  <2> QED BY <2>1, <2>2, RecordFields, LimiterAssumption DEF Restante, Until, Never
<1> QED BY <1>1, LimiterInvariant, PTL

\* A count that goes down, in one step: forgotten by a success, or by the memory.
Forgets(k) ==
  intentos'[k].fallos < intentos[k].fallos =>
    \/ Succeeds(k) /\ intentos'[k] = NoRecord
    \/ /\ intentos[k].left <= 0 /\ intentos[k].quiet > Memoria
       /\ intentos'[k].fallos <= 1

LEMMA CleanupForgets ==
  ASSUME LimiterInv, NEW k \in Keys, NEW age \in 0 .. MaxLate,
         intentos'[k] \in {Limpio(k, age), Anotado(Limpio(k, age), age)}
  PROVE  Forgets(k)
<1>1. RecordInv(Limpio(k, age)) /\ intentos[k].fallos \in 0 .. FallosCap
  BY LimpioInv, RecordFields DEF LimiterInv
<1>2. /\ Limpio(k, age).fallos \in 0 .. FallosCap
      /\ Anotado(Limpio(k, age), age).fallos =
           IF Limpio(k, age).fallos < FallosCap THEN Limpio(k, age).fallos + 1 ELSE FallosCap
  BY <1>1, AnotadoInv, RecordFields
<1>3. CASE Limpio(k, age) = intentos[k]
  BY <1>1, <1>2, <1>3, LimiterAssumption DEF Forgets
<1>4. CASE /\ Limpio(k, age) = NoRecord
           /\ intentos[k].left <= 0 /\ intentos[k].quiet > Memoria
  <2>1. intentos'[k].fallos <= 1
    BY <1>2, <1>4, NoRecordInv, LimiterAssumption
  <2> QED BY <1>4, <2>1 DEF Forgets
<1> QED BY <1>3, <1>4, LimpioInv

\* A correct password leaves a record alone, or removes it.
LEMMA ExitoRecord ==
  ASSUME LimiterInv, NEW a \in Attempts, Exito(a), NEW k \in Keys
  PROVE  intentos'[k] = intentos[k] \/ (Succeeds(k) /\ intentos'[k] = NoRecord)
<1>1. CASE k \in KeysOf(a)
  <2>1. attempt'[a] = NoAttempt /\ attempt[a].stage = "comparing"
    BY DEF Exito, LimiterInv, LimiterTypeOK
  <2> QED BY <1>1, <2>1 DEF Exito, Succeeds
<1>2. CASE k \notin KeysOf(a)
  BY <1>2 DEF Exito
<1> QED BY <1>1, <1>2

\* A count is forgotten after a correct password, or once nothing has failed for
\* longer than Memoria and no block is in force.
THEOREM CountsAreKept == LimiterSpec => FailuresRemembered
<1>1. LimiterInv /\ [LimiterNext]_limiterVars => [\A k \in Keys : Forgets(k)]_limiterVars
  <2> SUFFICES ASSUME LimiterInv, LimiterNext, NEW k \in Keys
               PROVE  Forgets(k)
    OBVIOUS
  <2>1. RecordInv(intentos[k]) /\ intentos[k].fallos \in Int
    BY RecordFields DEF LimiterInv
  <2>2. CASE intentos'[k] = intentos[k]
    BY <2>1, <2>2 DEF Forgets
  <2>3. ASSUME NEW a \in Attempts, EsperaReads(a) \/ FalloReads(a) PROVE Forgets(k)
    BY <2>2, <2>3 DEF EsperaReads, FalloReads
  <2>4. ASSUME NEW a \in Attempts, Espera(a) PROVE Forgets(k)
    <3>1. attempt[a].age \in 0 .. MaxLate
      BY <2>4, Busy, AttemptType DEF Espera, LimiterInv
    <3> QED BY <2>4, <3>1, CleanupForgets DEF Espera
  <2>5. ASSUME NEW a \in Attempts, Fallo(a) PROVE Forgets(k)
    BY <2>5, FalloRecord, CleanupForgets
  <2>6. ASSUME NEW a \in Attempts, Exito(a) PROVE Forgets(k)
    BY <2>2, <2>6, ExitoRecord DEF Forgets
  <2>7. ASSUME LimiterTick PROVE Forgets(k)
    <3>1. intentos'[k] = Aged(intentos[k])
      BY <2>7 DEF LimiterTick
    <3> QED BY <2>1, <3>1, AgedInv DEF Forgets
  <2> QED BY <2>3, <2>4, <2>5, <2>6, <2>7 DEF LimiterNext
<1> QED BY <1>1, LimiterInvariant, PTL DEF LimiterSpec, FailuresRemembered, Forgets
-----------------------------------------------------------------------------
(* The doubling.                                                           *)

\* One turn of anotar's loop.
Turn(d) == IF d < BloqueoMaximo THEN 2 * d ELSE d

\* The first n turns of it, as a function.
Turns(f, n) ==
  /\ f \in [0 .. n -> Nat] /\ f[0] = Bloqueo
  /\ \A i \in 1 .. n : f[i] = Turn(f[i - 1])

LEMMA TurnType ==
  ASSUME NEW d \in Nat
  PROVE  Turn(d) \in Nat /\ d <= Turn(d)
BY LimiterAssumption DEF Turn

LEMMA TurnsExist == \A n \in Nat : \E f : Turns(f, n)
<1> DEFINE Bad == {n \in Nat : ~\E f : Turns(f, n)}
<1>1. SUFFICES ASSUME Bad # {} PROVE FALSE
  OBVIOUS
<1>2. PICK n \in Bad : \A k \in Bad : n <= k
  BY <1>1, LeastExists
<1>3. CASE n = 0
  <2> DEFINE f == [i \in 0 .. 0 |-> Bloqueo]
  <2>1. f \in [0 .. 0 -> Nat] /\ f[0] = Bloqueo
    BY LimiterAssumption
  <2> HIDE DEF f
  <2>2. Turns(f, 0)
    BY <2>1 DEF Turns
  <2> QED BY <1>2, <1>3, <2>2
<1>4. CASE n # 0
  <2>1. n - 1 \in Nat /\ n \in Nat /\ n - 1 \notin Bad
    BY <1>2, <1>4
  <2>2. PICK g : Turns(g, n - 1)
    BY <2>1
  <2> DEFINE f == [i \in 0 .. n |-> IF i = n THEN Turn(g[n - 1]) ELSE g[i]]
  <2>3. \A i \in 0 .. n - 1 : g[i] \in Nat
    BY <2>2 DEF Turns
  <2>4. Turn(g[n - 1]) \in Nat
    BY <2>1, <2>3, TurnType
  <2>5. f \in [0 .. n -> Nat]
    BY <2>1, <2>3, <2>4
  <2>6. f[n] = Turn(g[n - 1]) /\ \A i \in 0 .. n - 1 : f[i] = g[i]
    BY <2>1
  <2> HIDE DEF f
  <2>7. f[0] = Bloqueo
    BY <2>1, <2>2, <2>6 DEF Turns
  <2>8. ASSUME NEW i \in 1 .. n PROVE f[i] = Turn(f[i - 1])
    <3>1. i - 1 \in 0 .. n - 1 /\ f[i - 1] = g[i - 1]
      BY <2>1, <2>6
    <3>2. CASE i = n
      BY <2>6, <3>1, <3>2
    <3>3. CASE i # n
      <4>1. i \in 1 .. n - 1
        BY <2>1, <3>3
      <4> QED BY <2>2, <2>6, <3>1, <4>1 DEF Turns
    <3> QED BY <3>2, <3>3
  <2>9. Turns(f, n)
    BY <2>5, <2>7, <2>8 DEF Turns
  <2> QED BY <1>2, <2>9
<1> QED BY <1>3, <1>4

LEMMA DoubledTurns == Turns(Doubled, FallosCap)
<1> DEFINE body(f) == [i \in 0 .. FallosCap |->
                         IF i = 0 THEN Bloqueo
                         ELSE IF f[i - 1] < BloqueoMaximo THEN 2 * f[i - 1] ELSE f[i - 1]]
<1>1. FallosCap \in Nat
  BY LimiterAssumption
<1>2. PICK f : Turns(f, FallosCap)
  BY <1>1, TurnsExist
<1>3. f = body(f)
  BY <1>1, <1>2 DEF Turns, Turn
<1>4. Doubled = CHOOSE g : g = body(g)
  BY DEF Doubled
<1> HIDE DEF body
<1>5. Doubled = body(Doubled)
  BY <1>3, <1>4
<1>6. /\ Doubled = [i \in 0 .. FallosCap |-> Doubled[i]] /\ Doubled[0] = Bloqueo
      /\ \A i \in 1 .. FallosCap : Doubled[i] = Turn(Doubled[i - 1])
  BY <1>1, <1>5 DEF body, Turn
<1> DEFINE Bad == {i \in 0 .. FallosCap : Doubled[i] # f[i]}
<1>7. Bad = {}
  <2>1. SUFFICES ASSUME Bad # {} PROVE FALSE
    OBVIOUS
  <2>2. Bad \in SUBSET Nat
    OBVIOUS
  <2>3. PICK i \in Bad : \A k \in Bad : i <= k
    BY <2>1, <2>2, LeastExists
  <2>4. i # 0
    BY <1>2, <1>6, <2>3 DEF Turns
  <2>5. i \in 1 .. FallosCap /\ i - 1 \in 0 .. FallosCap /\ i - 1 \notin Bad
    BY <1>1, <2>3, <2>4
  <2>6. Doubled[i - 1] = f[i - 1]
    BY <2>5
  <2> QED BY <1>2, <1>6, <2>3, <2>5, <2>6 DEF Turns
<1>8. Doubled \in [0 .. FallosCap -> Nat]
  BY <1>2, <1>6, <1>7 DEF Turns
<1> QED BY <1>6, <1>8 DEF Turns

\* From the failure that reaches the limit on, every further one doubles the block,
\* up to the cap (anotar).
THEOREM BlockDoubles ==
  ASSUME NEW n \in Intentos .. FallosCap - 1
  PROVE  Block(n + 1) = IF 2 * Block(n) <= BloqueoMaximo THEN 2 * Block(n) ELSE BloqueoMaximo
<1> DEFINE i == n - Intentos
           d == Doubled[i]
           e == Doubled[i + 1]
<1>1. /\ i \in 0 .. FallosCap /\ i + 1 \in 1 .. FallosCap /\ (n + 1) - Intentos = i + 1
      /\ (i + 1) - 1 = i /\ ~(n < Intentos) /\ ~(n + 1 < Intentos)
  BY LimiterAssumption
<1>2. d \in Nat /\ e = Turn(d)
  BY <1>1, DoubledTurns DEF Turns
<1>3. Block(n) = IF d \in 0 .. BloqueoMaximo THEN d ELSE BloqueoMaximo
  BY <1>1 DEF Block
<1>4. Block(n + 1) = IF e \in 0 .. BloqueoMaximo THEN e ELSE BloqueoMaximo
  BY <1>1 DEF Block
<1> HIDE DEF d, e, i
<1> QED BY <1>2, <1>3, <1>4, LimiterAssumption DEF Turn

LEMMA BlockGrows ==
  ASSUME NEW n \in 0 .. FallosCap - 1
  PROVE  Block(n) <= Block(n + 1)
<1>1. n \in 0 .. FallosCap /\ n + 1 \in 0 .. FallosCap
  BY LimiterAssumption
<1>2. Block(n) \in 0 .. BloqueoMaximo /\ Block(n + 1) \in 0 .. BloqueoMaximo
  BY <1>1, BlockBounds
<1>3. CASE n < Intentos
  <2>1. Block(n) = 0
    BY <1>1, <1>3, BlockBounds
  <2> QED BY <1>2, <2>1
<1>4. CASE n >= Intentos
  <2>1. n \in Intentos .. FallosCap - 1
    BY <1>4, LimiterAssumption
  <2> QED BY <1>2, <2>1, BlockDoubles, LimiterAssumption
<1> QED BY <1>3, <1>4, LimiterAssumption

\* A failure of record r restarts a block of at least the length r had.
LEMMA AnotadoGrows ==
  ASSUME NEW r, RecordInv(r), r.fallos >= Intentos, NEW age \in 0 .. MaxLate
  PROVE  Anotado(r, age).left >= Block(r.fallos) - age
<1> DEFINE n == Anotado(r, age).fallos
<1>1. n = IF r.fallos < FallosCap THEN r.fallos + 1 ELSE FallosCap
  BY AnotadoInv
<1>2. r.fallos \in 0 .. FallosCap /\ Block(r.fallos) \in 0 .. BloqueoMaximo
  BY RecordFields
<1>3. n >= Intentos /\ Block(r.fallos) <= Block(n) /\ Block(n) \in 0 .. BloqueoMaximo
  <2>1. CASE r.fallos < FallosCap
    <3>1. r.fallos \in 0 .. FallosCap - 1 /\ n = r.fallos + 1 /\ n \in 0 .. FallosCap
      BY <1>1, <1>2, <2>1, LimiterAssumption
    <3> HIDE DEF n
    <3>2. Block(r.fallos) <= Block(r.fallos + 1)
      BY <3>1, BlockGrows
    <3>3. Block(n) \in 0 .. BloqueoMaximo
      BY <3>1, BlockBounds
    <3> QED BY <1>2, <3>1, <3>2, <3>3, LimiterAssumption
  <2>2. CASE ~(r.fallos < FallosCap)
    <3>1. n = r.fallos
      BY <1>1, <1>2, <2>2, LimiterAssumption
    <3> HIDE DEF n
    <3> QED BY <1>2, <3>1, LimiterAssumption
  <2> QED BY <2>1, <2>2
<1>4. Anotado(r, age).left = Block(n) - age
  BY <1>3, AnotadoInv
<1> HIDE DEF n
<1> QED BY <1>2, <1>3, <1>4, LimiterAssumption

\* A block that is shortened, in one step.
Shortens(k) ==
  (intentos[k].left > 0 /\ intentos'[k].left < intentos[k].left) =>
    \/ intentos' = [j \in Keys |-> Aged(intentos[j])]
    \/ Succeeds(k) /\ intentos'[k] = NoRecord
    \/ \E a \in Attempts :
         /\ Fails(a, k) /\ attempt[a].age > intentos[k].quiet
         /\ intentos[k].left - intentos'[k].left <= attempt[a].age - intentos[k].quiet

LEMMA FalloShortens ==
  ASSUME LimiterInv, NEW a \in Attempts, Fallo(a), NEW k \in Keys
  PROVE  Shortens(k)
<1> DEFINE r == intentos[k]
           age == attempt[a].age
<1> SUFFICES ASSUME r.left > 0, intentos'[k].left < r.left
             PROVE  /\ Fails(a, k) /\ age > r.quiet
                    /\ r.left - intentos'[k].left <= age - r.quiet
  BY DEF Shortens
<1>1. RecordInv(r) /\ age \in 0 .. MaxLate
  BY FalloRecord DEF LimiterInv
<1> HIDE DEF r, age
<1>2. /\ r.left \in Int /\ r.quiet \in Int /\ Block(r.fallos) \in Int
      /\ r.fallos >= Intentos /\ r.left = Block(r.fallos) - r.quiet
  BY <1>1, RecordFields, LimiterAssumption DEF Never
<1>3. Limpio(k, age) = r
  BY <1>1, <1>2, LimpioInv DEF r
<1>4. k \in KeysOf(a) /\ intentos'[k] = Anotado(r, age)
  BY <1>2, <1>3, FalloRecord DEF age
<1>5. Fails(a, k)
  BY <1>4 DEF Fallo, Fails, LimiterInv, LimiterTypeOK
<1>6. intentos'[k].left \in Int /\ intentos'[k].left >= Block(r.fallos) - age
  BY <1>1, <1>2, <1>4, AnotadoInv, AnotadoGrows, RecordFields, LimiterAssumption DEF Never
<1> QED BY <1>1, <1>2, <1>5, <1>6, LimiterAssumption

\* A block in force gives way to time, to a correct password and, by no more than
\* the difference of the two readings of the clock, to a failure that was overtaken.
THEOREM BlocksStand == LimiterSpec => BlocksHold
<1>1. LimiterInv /\ [LimiterNext]_limiterVars => [\A k \in Keys : Shortens(k)]_limiterVars
  <2> SUFFICES ASSUME LimiterInv, LimiterNext, NEW k \in Keys
               PROVE  Shortens(k)
    OBVIOUS
  <2>1. RecordInv(intentos[k]) /\ intentos[k].left \in Int
    BY RecordFields, LimiterAssumption DEF LimiterInv, Never
  <2>2. CASE intentos'[k] = intentos[k]
    BY <2>1, <2>2 DEF Shortens
  <2>3. ASSUME NEW a \in Attempts, EsperaReads(a) \/ FalloReads(a) PROVE Shortens(k)
    BY <2>2, <2>3 DEF EsperaReads, FalloReads
  <2>4. ASSUME NEW a \in Attempts, Espera(a) PROVE Shortens(k)
    <3>1. attempt[a].age \in 0 .. MaxLate
      BY <2>4, Busy, AttemptType DEF Espera, LimiterInv
    <3>2. intentos'[k] = intentos[k] \/ intentos[k].left <= 0
      BY <2>4, <3>1, LimpioInv DEF Espera
    <3>3. CASE intentos[k].left <= 0
      BY <2>1, <3>3 DEF Shortens
    <3> QED BY <2>2, <3>2, <3>3
  <2>5. ASSUME NEW a \in Attempts, Fallo(a) PROVE Shortens(k)
    BY <2>5, FalloShortens
  <2>6. ASSUME NEW a \in Attempts, Exito(a) PROVE Shortens(k)
    BY <2>2, <2>6, ExitoRecord DEF Shortens
  <2>7. ASSUME LimiterTick PROVE Shortens(k)
    BY <2>7 DEF LimiterTick, Shortens
  <2> QED BY <2>3, <2>4, <2>5, <2>6, <2>7 DEF LimiterNext
<1> QED BY <1>1, LimiterInvariant, PTL DEF LimiterSpec, BlocksHold, Shortens
=============================================================================
