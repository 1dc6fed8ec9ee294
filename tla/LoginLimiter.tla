---------------------------- MODULE LoginLimiter ----------------------------
(***************************************************************************)
(* The limiter of login attempts (internal/server/ratelimit.go) as         *)
(* handleLogin uses it: espera, then the password comparison without the   *)
(* lock, then fallo or exito.  Attempts overlap, so any number of them may *)
(* be admitted before the first failure is counted.  espera and fallo read *)
(* the clock before they take the lock, so they may take it in another     *)
(* order than that of their readings, and meet records of a later one.     *)
(*                                                                         *)
(* Everything lives in memory: a restart is the initial state again.       *)
(***************************************************************************)
EXTENDS Integers, FiniteSets

CONSTANTS
  Attempts,       \* logins in flight at once: a bound of the model
  Users, Ips,     \* the keys of the two maps, normalised by claveUsuario
  Intentos,       \* cfg.Intentos
  Bloqueo,        \* cfg.Bloqueo, in time units
  BloqueoMaximo,  \* bloqueoMaximo
  Memoria,        \* cfg.Memoria
  MaxRegistros,   \* maxRegistros
  Intervalo,      \* intervaloLimpieza
  MaxLate,        \* time units from a reading of the clock to the lock: a bound
  FallosCap,      \* failures counted: a bound of the model
  QuietCap        \* time units counted since a failure: a bound of the model

ASSUME LimiterAssumption ==
  /\ Users \cap Ips = {}
  /\ Intentos \in Nat \ {0} /\ FallosCap \in Nat /\ Intentos <= FallosCap
  /\ Bloqueo \in Nat \ {0} /\ BloqueoMaximo \in Nat /\ Memoria \in Nat
  /\ MaxRegistros \in Nat /\ Intervalo \in Nat
  /\ MaxLate \in Nat
  /\ QuietCap \in Nat /\ Memoria + MaxLate < QuietCap /\ BloqueoMaximo + MaxLate <= QuietCap

VARIABLES
  intentos,   \* key -> its record in porUsuario or porIP; fallos 0: none
  limpieza,   \* time units since ultimaLimpieza, as far as the next cleanup asks
  attempt     \* the attempts that are being served

limiterVars == <<intentos, limpieza, attempt>>

Keys    == Users \cup Ips
Never   == -MaxLate   \* a block that is over for every reading of the clock
\* left: until bloqueadoHasta, negative once past; quiet: since visto.
Records == [fallos : 0 .. FallosCap, left : Never .. BloqueoMaximo, quiet : 0 .. QuietCap]
NoRecord  == [fallos |-> 0, left |-> Never, quiet |-> 0]
NoAttempt == [stage |-> "none"]
\* asking and failing: espera and fallo have read the clock, age units ago.
AttemptStates ==
  {NoAttempt} \cup [stage : {"asking", "comparing", "failing"}, user : Users, ip : Ips,
                    age : 0 .. MaxLate]

LimiterInit ==
  /\ intentos = [k \in Keys |-> NoRecord]
  /\ limpieza = 0
  /\ attempt = [a \in Attempts |-> NoAttempt]
-----------------------------------------------------------------------------
\* anotar's loop: doubled for each failure past the limit while below the cap.
Doubled[i \in 0 .. FallosCap] ==
  IF i = 0 THEN Bloqueo
  ELSE IF Doubled[i - 1] < BloqueoMaximo THEN 2 * Doubled[i - 1] ELSE Doubled[i - 1]

Block(n) ==
  IF n < Intentos THEN 0
  ELSE IF Doubled[n - Intentos] \in 0 .. BloqueoMaximo THEN Doubled[n - Intentos]
  ELSE BloqueoMaximo

\* Mutant: the block is set by the failure that reaches the limit only.
AnotadoOnce(r, age) ==
  LET n == IF r.fallos < FallosCap THEN r.fallos + 1 ELSE FallosCap
  IN  [fallos |-> n, left |-> IF n = Intentos THEN Block(n) - age ELSE r.left, quiet |-> age]

\* anotar on a record, at a reading of the clock of this age.
Anotado(r, age) ==
  LET n == IF r.fallos < FallosCap THEN r.fallos + 1 ELSE FallosCap
  IN  [fallos |-> n, left |-> IF n < Intentos THEN r.left ELSE Block(n) - age, quiet |-> age]

\* restante, at a reading of this age.
Restante(r, age) == IF r.left + age > 0 THEN r.left + age ELSE 0

Toca(age) == limpieza - age >= Intervalo

\* Mutants: the record of a blocked key is dropped; the last of Memoria too.
LimpioBlocked(k, age) ==
  IF Toca(age) /\ intentos[k].quiet - age > Memoria THEN NoRecord ELSE intentos[k]
LimpioEarly(k, age) ==
  IF Toca(age) /\ Restante(intentos[k], age) = 0 /\ intentos[k].quiet - age >= Memoria
  THEN NoRecord ELSE intentos[k]

\* limpiarSiToca, on one key.
Limpio(k, age) ==
  IF Toca(age) /\ Restante(intentos[k], age) = 0 /\ intentos[k].quiet - age > Memoria
  THEN NoRecord ELSE intentos[k]

Limpiada(age) == IF Toca(age) THEN age ELSE limpieza

\* A full map takes no new key.
Fits(k, age) ==
  LET map == IF k \in Users THEN Users ELSE Ips
  IN  \/ Limpio(k, age).fallos > 0
      \/ Cardinality({j \in map : Limpio(j, age).fallos > 0}) < MaxRegistros
-----------------------------------------------------------------------------
KeysOf(a) == {attempt[a].user, attempt[a].ip}

\* handleLogin calls espera, which reads the clock.
EsperaReads(a) ==
  /\ attempt[a].stage = "none"
  /\ \E u \in Users, i \in Ips :
       attempt' = [attempt EXCEPT ![a] = [stage |-> "asking", user |-> u, ip |-> i, age |-> 0]]
  /\ UNCHANGED <<intentos, limpieza>>

\* The rest of espera, under the lock.
Espera(a) ==
  LET age == attempt[a].age
  IN  /\ attempt[a].stage = "asking"
      /\ attempt' = [attempt EXCEPT ![a] =
                       IF \A k \in KeysOf(a) : Restante(Limpio(k, age), age) = 0
                       THEN [@ EXCEPT !.stage = "comparing", !.age = 0] ELSE NoAttempt]
      /\ intentos' = [k \in Keys |-> Limpio(k, age)]
      /\ limpieza' = Limpiada(age)

\* The password is wrong, and fallo reads the clock.
FalloReads(a) ==
  /\ attempt[a].stage = "comparing"
  /\ attempt' = [attempt EXCEPT ![a].stage = "failing"]
  /\ UNCHANGED <<intentos, limpieza>>

\* The rest of fallo, under the lock.
Fallo(a) ==
  LET age == attempt[a].age
  IN  /\ attempt[a].stage = "failing"
      /\ intentos' = [k \in Keys |-> IF k \in KeysOf(a) /\ Fits(k, age)
                                     THEN Anotado(Limpio(k, age), age) ELSE Limpio(k, age)]
      /\ limpieza' = Limpiada(age)
      /\ attempt' = [attempt EXCEPT ![a] = NoAttempt]

Exito(a) ==
  /\ attempt[a].stage = "comparing"
  /\ intentos' = [k \in Keys |-> IF k \in KeysOf(a) THEN NoRecord ELSE intentos[k]]
  /\ attempt' = [attempt EXCEPT ![a] = NoAttempt]
  /\ UNCHANGED limpieza

\* What a record says of the present, one time unit later.
Aged(r) ==
  IF r.fallos = 0 THEN r
  ELSE [r EXCEPT !.left = IF @ = Never THEN @ ELSE @ - 1,
                 !.quiet = IF @ = QuietCap THEN @ ELSE @ + 1]

OnTheClock(a) == attempt[a].stage \in {"asking", "failing"}

LimiterTick ==
  /\ \A a \in Attempts : OnTheClock(a) => attempt[a].age < MaxLate
  /\ attempt' = [a \in Attempts |-> IF OnTheClock(a) THEN [attempt[a] EXCEPT !.age = @ + 1]
                                    ELSE attempt[a]]
  /\ intentos' = [k \in Keys |-> Aged(intentos[k])]
  /\ limpieza' = IF limpieza >= Intervalo + MaxLate THEN limpieza ELSE limpieza + 1

LimiterNext ==
  \/ \E a \in Attempts :
       EsperaReads(a) \/ Espera(a) \/ FalloReads(a) \/ Fallo(a) \/ Exito(a)
  \/ LimiterTick

LimiterSpec == LimiterInit /\ [][LimiterNext]_limiterVars
-----------------------------------------------------------------------------
LimiterTypeOK ==
  /\ intentos \in [Keys -> Records]
  /\ limpieza \in 0 .. Intervalo + MaxLate
  /\ attempt \in [Attempts -> AttemptStates]

\* Whatever the attempts in flight, the cleanups and the order of the failures, a
\* key is blocked for exactly what its count demands from the reading of the clock
\* of the failure counted last, for whoever asks with whatever reading (restante).
BlockMatchesFailures ==
  \A k \in Keys, age \in 0 .. MaxLate :
    LET r     == intentos[k]
        since == r.quiet - age
    IN  Restante(r, age) = IF r.fallos >= Intentos /\ since < Block(r.fallos)
                           THEN Block(r.fallos) - since ELSE 0

\* An attempt of key k succeeds in this step, or counts its failure.
Succeeds(k) == \E a \in Attempts : /\ attempt[a].stage = "comparing" /\ k \in KeysOf(a)
                                   /\ attempt'[a] = NoAttempt
Fails(a, k) == attempt[a].stage = "failing" /\ k \in KeysOf(a) /\ attempt'[a] = NoAttempt

\* A block in force gives way to time, to a correct password and to a failure that
\* was overtaken: one whose reading of the clock is older than the last recorded
\* one, which shortens it by at most the time between the two.  Neither a cleanup,
\* at whatever reading, nor any other failure shortens it (fallo, limpiarSiToca).
BlocksHold ==
  [][\A k \in Keys :
       (intentos[k].left > 0 /\ intentos'[k].left < intentos[k].left) =>
         \/ intentos' = [j \in Keys |-> Aged(intentos[j])]
         \/ Succeeds(k) /\ intentos'[k] = NoRecord
         \/ \E a \in Attempts :
              /\ Fails(a, k) /\ attempt[a].age > intentos[k].quiet
              /\ intentos[k].left - intentos'[k].left <= attempt[a].age - intentos[k].quiet
    ]_limiterVars

\* A count is forgotten after a correct password, or once nothing has failed for
\* longer than Memoria and no block is in force; never sooner, never in part (a
\* failure that triggers the cleanup is the first of a new count).
FailuresRemembered ==
  [][\A k \in Keys :
       intentos'[k].fallos < intentos[k].fallos =>
         \/ Succeeds(k) /\ intentos'[k] = NoRecord
         \/ /\ intentos[k].left <= 0 /\ intentos[k].quiet > Memoria
            /\ intentos'[k].fallos <= 1]_limiterVars
=============================================================================
