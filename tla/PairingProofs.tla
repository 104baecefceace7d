--------------------------- MODULE PairingProofs ---------------------------
(* The limits of ClientPairing, for any number of connections, any limits  *)
(* and servers that send anything; then, for one connection, what the two  *)
(* sides of PairingFlow agree on, whatever crosses in flight.              *)
EXTENDS PairingFlow, FiniteSetTheorems, SequenceTheorems, TLAPS

SharedStates ==
    [rounds : Nat, open : BOOLEAN, failures : Nat, boundTo : Connections \cup {Nobody}]

\* An attempt that may yet show a code, and one whose guess may yet fail.
Showing(a)  == a.state = "serverInit"
Guessing(a) == a.method = "static" /\ a.state \in {"auth", "confirm"}

\* The static code's attempts show none.
Coherent(a) == a.state = "serverInit" => a.method # "static"

\* What one step may do to a counter n: begin anew, stay, or charge the step's
\* attempt, which then owes nothing more.  An attempt that owes one begins only
\* below the limit.
Charges(n, after, owed, owes, limit) ==
    \/ after = 0
    \/ after = n /\ (owes => owed \/ n < limit)
    \/ after = n + 1 /\ owed /\ ~owes

\* A handler's step, from attempt a and shared state sh.
Sound(step, a, sh) ==
    /\ step.attempt \in AttemptRecords /\ step.shared \in SharedStates
    /\ Coherent(step.attempt)
    /\ Charges(sh.rounds, step.shared.rounds, Showing(a), Showing(step.attempt), RoundLimit)
    /\ Charges(sh.failures, step.shared.failures, Guessing(a), Guessing(step.attempt), WindowFailures)

\* A counter, with what the attempts in S may yet add to it.
Within(n, S, limit) == n + Cardinality(S) <= limit - 1 + Cardinality(Connections)

AllShowing  == {c \in Connections : Showing(attempt[c])}
AllGuessing == {c \in Connections : Guessing(attempt[c])}

LimitsInv ==
    /\ ClientTypeOK
    /\ \A c \in Connections : Coherent(attempt[c])
    /\ Within(shared.rounds, AllShowing, RoundLimit)
    /\ Within(shared.failures, AllGuessing, WindowFailures)

----------------------------------------------------------------------------
(* Counting.                                                               *)

LEMMA Countable ==
    ASSUME NEW S \in SUBSET Connections
    PROVE  /\ IsFiniteSet(S) /\ Cardinality(S) \in Nat /\ Cardinality(Connections) \in Nat
           /\ Cardinality(S) <= Cardinality(Connections)
<1>1. IsFiniteSet(Connections)
  BY PairingAssumption
<1>2. IsFiniteSet(S) /\ Cardinality(S) <= Cardinality(Connections)
  BY <1>1, FS_Subset
<1> QED
  BY <1>1, <1>2, FS_CardinalityType

\* A counter that begins anew is within any limit.
LEMMA AnewWithin ==
    ASSUME NEW S \in SUBSET Connections, NEW limit \in Nat \ {0}
    PROVE  Within(0, S, limit)
BY Countable DEF Within

\* A step of one connection keeps a counter and what may be added within the limit.
LEMMA ChargesWithin ==
    ASSUME NEW n \in Nat, NEW after \in Nat, NEW limit \in Nat \ {0}, NEW c \in Connections,
           NEW S \in SUBSET Connections, NEW T \in SUBSET Connections, T \ {c} = S \ {c},
           Charges(n, after, c \in S, c \in T, limit), Within(n, S, limit)
    PROVE  Within(after, T, limit)
<1> DEFINE R == S \ {c}
<1>1. /\ IsFiniteSet(R) /\ Cardinality(R) \in Nat /\ Cardinality(Connections) \in Nat
      /\ Cardinality(R) + 1 <= Cardinality(Connections)
  <2>1. R \in SUBSET Connections /\ R \cup {c} \in SUBSET Connections /\ c \notin R
    OBVIOUS
  <2>2. IsFiniteSet(R) /\ Cardinality(R) \in Nat
    BY <2>1, Countable
  <2>3. Cardinality(R \cup {c}) = Cardinality(R) + 1
    BY <2>1, <2>2, FS_AddElement
  <2> QED
    BY <2>1, <2>2, <2>3, Countable
<1>2. ASSUME NEW U \in SUBSET Connections, U \ {c} = R
      PROVE  Cardinality(U) = Cardinality(R) + (IF c \in U THEN 1 ELSE 0)
  <2>1. CASE c \in U
    <3>1. U = R \cup {c} /\ c \notin R
      BY <1>2, <2>1
    <3> QED
      BY <1>1, <2>1, <3>1, FS_AddElement
  <2>2. CASE c \notin U
    <3>1. U = R
      BY <1>2, <2>2
    <3> QED
      BY <1>1, <2>2, <3>1
  <2> QED
    BY <2>1, <2>2
<1>3. /\ Cardinality(S) = Cardinality(R) + (IF c \in S THEN 1 ELSE 0)
      /\ Cardinality(T) = Cardinality(R) + (IF c \in T THEN 1 ELSE 0)
  BY <1>2
<1> HIDE DEF R
<1> QED
  BY <1>1, <1>3 DEF Charges, Within

----------------------------------------------------------------------------
(* The handlers.                                                           *)

LEMMA DoneType == Done(NoAttempt) \in AttemptRecords /\ NoAttempt \in AttemptRecords
BY DEF Done, NoAttempt, NoEntry, NoSid, AttemptRecords, States

\* What ends an attempt charges nothing.
LEMMA EndsSound ==
    ASSUME NEW a \in AttemptRecords, NEW sh \in SharedStates, NEW reason, NEW after, NEW out
    PROVE  /\ Sound(Abort(a, sh, reason), a, sh) /\ Sound(ProtocolError(a, sh), a, sh)
           /\ Sound(Step(after, Done(a), sh, out), a, sh)
<1>1. Done(a) = Done(NoAttempt) /\ Done(a).state = "done"
  BY DEF Done, NoAttempt
<1> QED
  BY <1>1, DoneType DEF Abort, ProtocolError, Step, Sound, Coherent, Charges, Showing, Guessing

LEMMA SameSound ==
    ASSUME NEW a \in AttemptRecords, Coherent(a), NEW sh \in SharedStates, NEW out
    PROVE  Sound(Step("continue", a, sh, out), a, sh)
BY DEF Step, Sound, Charges

\* An attempt begins below the limit of its code.
LEMMA BeginSound ==
    ASSUME NEW a \in AttemptRecords, NEW old \in AttemptRecords, NEW sh \in SharedStates,
           NEW c \in Connections, MayStart(a, sh, c)
    PROVE  Sound(BeginAttempt(a, sh, c), old, sh)
<1> DEFINE begun == [a EXCEPT !.round = 1, !.state = IF a.method = "dynamic" THEN "serverInit" ELSE "auth"]
           bound == IF a.method = "static" /\ sh.boundTo = Nobody THEN [sh EXCEPT !.boundTo = c] ELSE sh
<1>1. /\ begun \in AttemptRecords /\ begun.method = a.method
      /\ begun.state = "serverInit" <=> a.method = "dynamic"
  BY DEF AttemptRecords, States
<1>2. bound \in SharedStates /\ bound.rounds = sh.rounds /\ bound.failures = sh.failures
  BY DEF SharedStates
<1>3. /\ BeginAttempt(a, sh, c).attempt = begun
      /\ BeginAttempt(a, sh, c).shared = bound
  BY DEF BeginAttempt, Step
<1>4. /\ Showing(begun) => sh.rounds < RoundLimit
      /\ Guessing(begun) => sh.failures < WindowFailures
  BY <1>1, PairingAssumption DEF MayStart, Showing, Guessing, HoldingBack, WindowOpen, SharedStates
<1> HIDE DEF begun, bound
<1> QED
  BY <1>1, <1>2, <1>3, <1>4 DEF Sound, Charges, Coherent

LEMMA StartSound ==
    ASSUME NEW method \in Methods, NEW index \in Nat, NEW sh \in SharedStates,
           NEW c \in Connections, NEW old \in AttemptRecords
    PROVE  Sound(Start(method, index, sh, c), old, sh)
<1> DEFINE a == [NoAttempt EXCEPT !.method = method, !.index = index]
<1>1. a \in AttemptRecords /\ a.state = "none" /\ a.method = method
  BY PairingAssumption DEF NoAttempt, NoEntry, NoSid, AttemptRecords, States
<1>2. ASSUME NEW state \in {"finalize", "pending"}, NEW out
      PROVE  Sound(Step("continue", [a EXCEPT !.state = state], sh, out), old, sh)
  <2>1. [a EXCEPT !.state = state] \in AttemptRecords /\ [a EXCEPT !.state = state].state = state
    BY <1>1 DEF AttemptRecords, States
  <2> QED
    BY <2>1 DEF Sound, Step, Coherent, Charges, Showing, Guessing
<1> HIDE DEF a
<1>3. CASE method = "psk"
  BY <1>2, <1>3 DEF Start, a
<1>4. CASE method # "psk" /\ MayStart(a, sh, c)
  BY <1>1, <1>4, BeginSound DEF Start, a
<1>5. CASE method # "psk" /\ ~MayStart(a, sh, c)
  BY <1>2, <1>5 DEF Start, a
<1> QED
  BY <1>3, <1>4, <1>5

LEMMA ResumeSound ==
    ASSUME NEW a \in AttemptRecords, Coherent(a), NEW sh \in SharedStates, NEW c \in Connections
    PROVE  Sound(Resume(a, sh, c), a, sh)
BY BeginSound, SameSound DEF Resume

\* A proof that fails is charged to the static code, and leaves the dynamic one
\* another round only below the limit.
LEMMA MismatchSound ==
    ASSUME NEW a \in AttemptRecords, NEW sh \in SharedStates, a.state = "confirm"
    PROVE  Sound(Mismatch(a, sh), a, sh)
<1>1. CASE a.method = "static"
  <2> DEFINE charged == [sh EXCEPT !.failures = @ + 1]
  <2>1. charged \in SharedStates /\ charged.rounds = sh.rounds /\ charged.failures = sh.failures + 1
    BY DEF SharedStates
  <2>2. Done(a) = Done(NoAttempt) /\ Done(a).state = "done"
    BY DEF Done, NoAttempt
  <2>3. Mismatch(a, sh).attempt = Done(a) /\ Mismatch(a, sh).shared = charged
    BY <1>1 DEF Mismatch, Abort, Step
  <2> QED
    BY <1>1, <2>1, <2>2, <2>3, DoneType DEF Sound, Coherent, Charges, Showing, Guessing
<1>2. CASE a.method # "static" /\ (HoldingBack(sh) \/ Dialect = "aiosendspin911")
  BY <1>2, EndsSound DEF Mismatch
<1>3. CASE a.method # "static" /\ ~(HoldingBack(sh) \/ Dialect = "aiosendspin911")
  <2> DEFINE again == [a EXCEPT !.round = @ + 1, !.state = "serverInit", !.heard = NoEntry]
  <2>1. again \in AttemptRecords /\ again.state = "serverInit" /\ again.method = a.method
    <3>1. NoEntry \in [sid : Nat \X Nat, code : {"right", "wrong"}] /\ a.round + 1 \in Nat
      BY DEF AttemptRecords, NoEntry, NoSid
    <3> QED
      BY <3>1 DEF AttemptRecords, States
  <2>2. Mismatch(a, sh).attempt = again /\ Mismatch(a, sh).shared = sh
    BY <1>3 DEF Mismatch, Step
  <2>3. sh.rounds < RoundLimit
    BY <1>3, PairingAssumption DEF HoldingBack, SharedStates
  <2> HIDE DEF again
  <2> QED
    BY <1>3, <2>1, <2>2, <2>3 DEF Sound, Coherent, Charges, Guessing
<1> QED
  BY <1>1, <1>2, <1>3

LEMMA VerifiedSound ==
    ASSUME NEW a \in AttemptRecords, NEW sh \in SharedStates
    PROVE  Sound(Verified(a, sh), a, sh)
<1> DEFINE over == [a EXCEPT !.state = "finalize", !.heard = NoEntry]
           cleared == IF a.method = "dynamic" THEN [sh EXCEPT !.rounds = 0] ELSE sh
<1>1. over \in AttemptRecords /\ over.state = "finalize"
  BY DEF AttemptRecords, States, NoEntry, NoSid
<1>2. cleared \in SharedStates /\ cleared.rounds \in {0, sh.rounds} /\ cleared.failures = sh.failures
  BY DEF SharedStates
<1>3. Verified(a, sh).attempt = over /\ Verified(a, sh).shared = cleared
  BY DEF Verified, Step
<1> HIDE DEF over, cleared
<1> QED
  BY <1>1, <1>2, <1>3 DEF Sound, Coherent, Charges, Showing, Guessing

\* A round's code is charged when it is shown.
LEMMA RoundSound ==
    ASSUME NEW a \in AttemptRecords, NEW sh \in SharedStates, a.state = "serverInit", Coherent(a)
    PROVE  Sound(RoundBegins(a, sh), a, sh)
<1> DEFINE shown == [a EXCEPT !.state = "auth"]
           charged == [sh EXCEPT !.rounds = @ + 1]
<1>1. shown \in AttemptRecords /\ shown.state = "auth" /\ shown.method = a.method
  BY DEF AttemptRecords, States
<1>2. charged \in SharedStates /\ charged.rounds = sh.rounds + 1 /\ charged.failures = sh.failures
  BY DEF SharedStates
<1>3. RoundBegins(a, sh).attempt = shown /\ RoundBegins(a, sh).shared = charged
  BY DEF RoundBegins, Step
<1> HIDE DEF shown, charged
<1> QED
  BY <1>1, <1>2, <1>3 DEF Sound, Coherent, Charges, Showing, Guessing

LEMMA ReceiveSound ==
    ASSUME NEW a \in AttemptRecords, Coherent(a), NEW sh \in SharedStates, NEW m,
           m.type = "auth" => m.entry \in [sid : Nat \X Nat, code : {"right", "wrong"}]
    PROVE  Sound(Receive(a, sh, m), a, sh)
<1>1. CASE a.state = "done"
  BY <1>1, SameSound DEF Receive
<1>2. CASE a.state # "done" /\ m.type = "abort"
  BY <1>2, EndsSound DEF Receive
<1>3. CASE /\ a.state = "serverInit" /\ m.type = "init" /\ (m.nonce <=> a.round = 1)
  BY <1>3, RoundSound DEF Receive
<1>4. CASE a.state = "auth" /\ m.type = "auth"
  <2> DEFINE hears == [a EXCEPT !.state = "confirm", !.heard = m.entry]
  <2>1. m.entry \in [sid : Nat \X Nat, code : {"right", "wrong"}]
    BY <1>4
  <2>2. hears \in AttemptRecords /\ hears.state = "confirm" /\ hears.method = a.method
    BY <2>1 DEF AttemptRecords, States
  <2>3. Receive(a, sh, m).attempt = hears /\ Receive(a, sh, m).shared = sh
    BY <1>4 DEF Receive, Step
  <2> HIDE DEF hears
  <2> QED
    BY <1>4, <2>2, <2>3 DEF Sound, Coherent, Charges, Showing, Guessing
<1>5. CASE a.state = "confirm" /\ m.type = "confirm"
  BY <1>5, VerifiedSound, MismatchSound DEF Receive
<1>6. CASE a.state = "finalize" /\ m.type = "finalize"
  <2> DEFINE closed == IF a.method = "static" THEN CloseWindow(sh) ELSE sh
  <2>1. closed \in SharedStates /\ closed.rounds = sh.rounds /\ closed.failures = sh.failures
    BY DEF SharedStates, CloseWindow
  <2>2. Done(a) = Done(NoAttempt) /\ Done(a).state = "done"
    BY DEF Done, NoAttempt
  <2>3. Receive(a, sh, m).attempt = Done(a) /\ Receive(a, sh, m).shared = closed
    BY <1>6 DEF Receive, Step
  <2> HIDE DEF closed
  <2> QED
    BY <2>1, <2>2, <2>3, DoneType DEF Sound, Coherent, Charges, Showing, Guessing
<1>7. CASE /\ a.state # "done" /\ m.type # "abort"
           /\ ~(a.state = "serverInit" /\ m.type = "init" /\ (m.nonce <=> a.round = 1))
           /\ ~(a.state = "auth" /\ m.type = "auth")
           /\ ~(a.state = "confirm" /\ m.type = "confirm")
           /\ ~(a.state = "finalize" /\ m.type = "finalize")
  <2>1. Receive(a, sh, m) = ProtocolError(a, sh)
    BY <1>7 DEF Receive
  <2> QED
    BY <2>1, EndsSound
<1> QED
  BY <1>1, <1>2, <1>3, <1>4, <1>5, <1>6, <1>7

LEMMA CancelSound ==
    ASSUME NEW a \in AttemptRecords, Coherent(a), NEW sh \in SharedStates
    PROVE  Sound(Cancel(a, sh), a, sh)
BY SameSound, EndsSound DEF Cancel

----------------------------------------------------------------------------
(* The steps.                                                              *)

\* What a connection's step must leave for the limits to hold.
LEMMA OneConnection ==
    ASSUME LimitsInv, NEW c \in Connections, NEW a \in AttemptRecords,
           attempt' = [attempt EXCEPT ![c] = a],
           Sound([attempt |-> a, shared |-> shared'], attempt[c], shared)
    PROVE  /\ attempt' \in [Connections -> AttemptRecords] /\ shared' \in SharedStates
           /\ \A d \in Connections : Coherent(attempt[d])'
           /\ Within(shared.rounds, AllShowing, RoundLimit)'
           /\ Within(shared.failures, AllGuessing, WindowFailures)'
<1>1. /\ shared \in SharedStates /\ attempt \in [Connections -> AttemptRecords]
      /\ shared' \in SharedStates /\ attempt' \in [Connections -> AttemptRecords]
  BY DEF LimitsInv, ClientTypeOK, SharedStates, Sound
<1>2. /\ attempt'[c] = a /\ \A d \in Connections \ {c} : attempt'[d] = attempt[d]
      /\ Coherent(a)
  BY <1>1 DEF Sound
<1>3. \A d \in Connections : Coherent(attempt'[d])
  BY <1>2 DEF LimitsInv
<1>4. /\ AllShowing' \ {c} = AllShowing \ {c} /\ AllGuessing' \ {c} = AllGuessing \ {c}
      /\ c \in AllShowing' <=> Showing(a)
      /\ c \in AllShowing <=> Showing(attempt[c])
      /\ c \in AllGuessing' <=> Guessing(a)
      /\ c \in AllGuessing <=> Guessing(attempt[c])
      /\ AllShowing \in SUBSET Connections /\ AllShowing' \in SUBSET Connections
      /\ AllGuessing \in SUBSET Connections /\ AllGuessing' \in SUBSET Connections
  BY <1>2 DEF AllShowing, AllGuessing
<1>5. /\ shared.rounds \in Nat /\ shared'.rounds \in Nat
      /\ shared.failures \in Nat /\ shared'.failures \in Nat
  BY <1>1 DEF SharedStates
<1>6. /\ Charges(shared.rounds, shared'.rounds, c \in AllShowing, c \in AllShowing', RoundLimit)
      /\ Charges(shared.failures, shared'.failures, c \in AllGuessing, c \in AllGuessing', WindowFailures)
  BY <1>4 DEF Sound, Charges
<1>7. Within(shared'.rounds, AllShowing', RoundLimit)
  BY <1>4, <1>5, <1>6, ChargesWithin, PairingAssumption DEF LimitsInv
<1>8. Within(shared'.failures, AllGuessing', WindowFailures)
  BY <1>4, <1>5, <1>6, ChargesWithin, PairingAssumption DEF LimitsInv
<1> QED
  BY <1>1, <1>3, <1>7, <1>8

LEMMA TakesKeeps ==
    ASSUME LimitsInv, NEW c \in Connections, NEW step, Takes(c, step),
           Sound(step, attempt[c], shared),
           pairingIndex' \in [Connections -> Nat], resuming' \subseteq Connections, acts' \in Nat
    PROVE  LimitsInv'
<1>1. step.attempt \in AttemptRecords /\ attempt' = [attempt EXCEPT ![c] = step.attempt]
  BY DEF Takes, Sound
<1>2. Sound([attempt |-> step.attempt, shared |-> shared'], attempt[c], shared)
  BY DEF Takes, Sound
<1>3. live' \subseteq Connections
  BY DEF Takes, LimitsInv, ClientTypeOK
<1> QED
  BY <1>1, <1>2, <1>3, OneConnection DEF LimitsInv, ClientTypeOK, SharedStates

\* No attempt changes and no limit is charged.
LEMMA OthersKeep ==
    ASSUME LimitsInv, attempt' = attempt, shared' \in SharedStates,
           shared'.rounds \in {0, shared.rounds}, shared'.failures \in {0, shared.failures},
           pairingIndex' = pairingIndex, live' = live, resuming' \subseteq Connections, acts' \in Nat
    PROVE  LimitsInv'
<1>1. AllShowing' = AllShowing /\ AllGuessing' = AllGuessing
  BY DEF AllShowing, AllGuessing
<1>2. AllShowing \in SUBSET Connections /\ AllGuessing \in SUBSET Connections
  BY DEF AllShowing, AllGuessing
<1>3. Within(shared'.rounds, AllShowing, RoundLimit)
  BY <1>2, AnewWithin, PairingAssumption DEF LimitsInv
<1>4. Within(shared'.failures, AllGuessing, WindowFailures)
  BY <1>2, AnewWithin, PairingAssumption DEF LimitsInv
<1> QED
  BY <1>1, <1>3, <1>4 DEF LimitsInv, ClientTypeOK, SharedStates

LEMMA ClientInitInv == ClientInit => LimitsInv
<1> SUFFICES ASSUME ClientInit PROVE LimitsInv
  OBVIOUS
<1>1. ClientTypeOK /\ \A c \in Connections : attempt[c] = NoAttempt
  BY DoneType DEF ClientInit, ClientTypeOK
<1>2. \A c \in Connections : Coherent(attempt[c])
  BY <1>1 DEF NoAttempt, Coherent
<1>3. AllShowing \in SUBSET Connections /\ AllGuessing \in SUBSET Connections
  BY DEF AllShowing, AllGuessing
<1>4. shared.rounds = 0 /\ shared.failures = 0
  BY DEF ClientInit
<1>5. Within(0, AllShowing, RoundLimit) /\ Within(0, AllGuessing, WindowFailures)
  BY <1>3, AnewWithin, PairingAssumption
<1> QED
  BY <1>1, <1>2, <1>4, <1>5 DEF LimitsInv

LEMMA ClientNextKeeps == LimitsInv /\ [ClientNext]_clientVars => LimitsInv'
<1> SUFFICES ASSUME LimitsInv, [ClientNext]_clientVars PROVE LimitsInv'
  OBVIOUS
<1>1. /\ shared \in SharedStates /\ attempt \in [Connections -> AttemptRecords]
      /\ pairingIndex \in [Connections -> Nat] /\ live \subseteq Connections
      /\ resuming \subseteq Connections /\ acts \in Nat
      /\ \A c \in Connections : attempt[c] \in AttemptRecords /\ Coherent(attempt[c])
  BY DEF LimitsInv, ClientTypeOK, SharedStates
<1>2. ASSUME NEW c \in Connections, NEW method \in Methods, ActivatedFor(c, method)
      PROVE  LimitsInv'
  <2>1. pairingIndex[c] + 1 \in Nat /\ pairingIndex' \in [Connections -> Nat]
    BY <1>1, <1>2 DEF ActivatedFor
  <2> QED
    BY <1>1, <1>2, <2>1, StartSound, TakesKeeps DEF ActivatedFor
<1>3. ASSUME NEW c \in Connections, Receives(c)
      PROVE  LimitsInv'
  <2>1. PICK m \in ServerMessages(attempt[c]) : Takes(c, Receive(attempt[c], shared, m))
    BY <1>3 DEF Receives
  <2>2. m.type = "auth" => m.entry \in [sid : Nat \X Nat, code : {"right", "wrong"}]
    BY <1>1 DEF ServerMessages, Entries, Sid, NoEntry, NoSid, AttemptRecords
  <2> QED
    BY <1>1, <1>3, <2>1, <2>2, ReceiveSound, TakesKeeps DEF Receives
<1>4. ASSUME NEW c \in Connections, Resumes(c)
      PROVE  LimitsInv'
  BY <1>1, <1>4, ResumeSound, TakesKeeps DEF Resumes
<1>5. ASSUME NEW c \in Connections, Cancels(c)
      PROVE  LimitsInv'
  BY <1>1, <1>5, CancelSound, TakesKeeps DEF Cancels
<1>6. ASSUME NEW c \in Connections, TimesOut(c)
      PROVE  LimitsInv'
  BY <1>1, <1>6, EndsSound, TakesKeeps DEF TimesOut
<1>7. ASSUME NEW c \in Connections, Abandoned(c)
      PROVE  LimitsInv'
  <2>1. pairingIndex' \in [Connections -> Nat]
    BY <1>1, <1>7 DEF Abandoned
  <2>2. Sound([attempt |-> NoAttempt, shared |-> shared'], attempt[c], shared)
    BY <1>1, <1>7, DoneType DEF Abandoned, Sound, Coherent, Charges, Showing, Guessing, NoAttempt
  <2> QED
    BY <1>1, <1>7, <2>1, <2>2, DoneType, OneConnection
       DEF Abandoned, LimitsInv, ClientTypeOK, SharedStates
<1>8. ASSUME NEW c \in Connections, Drops(c)
      PROVE  LimitsInv'
  <2>1. /\ pairingIndex' \in [Connections -> Nat]
        /\ live' \subseteq Connections /\ resuming' \subseteq Connections /\ acts' \in Nat
    BY <1>1, <1>8 DEF Drops
  <2>2. /\ shared' \in SharedStates
        /\ shared'.rounds = shared.rounds /\ shared'.failures = shared.failures
    BY <1>1, <1>8 DEF Drops, Dropped, CloseWindow, SharedStates
  <2>3. Sound([attempt |-> NoAttempt, shared |-> shared'], attempt[c], shared)
    BY <2>2, DoneType DEF Sound, Coherent, Charges, Showing, Guessing, NoAttempt
  <2> QED
    BY <1>1, <1>8, <2>1, <2>2, <2>3, DoneType, OneConnection
       DEF Drops, LimitsInv, ClientTypeOK, SharedStates
<1>9. CASE OpensWindow
  <2>1. /\ shared' \in SharedStates /\ shared'.rounds = shared.rounds /\ shared'.failures = 0
    BY <1>1, <1>9 DEF OpensWindow, OperatorActs, SharedStates
  <2> QED
    BY <1>1, <1>9, <2>1, OthersKeep DEF OpensWindow, OperatorActs
<1>10. CASE ResetsRounds
  <2>1. /\ shared' \in SharedStates /\ shared'.rounds = 0 /\ shared'.failures = shared.failures
    BY <1>1, <1>10 DEF ResetsRounds, OperatorActs, SharedStates
  <2> QED
    BY <1>1, <1>10, <2>1, OthersKeep DEF ResetsRounds, OperatorActs
<1>11. CASE WindowExpires
  <2>1. /\ shared' \in SharedStates
        /\ shared'.rounds = shared.rounds /\ shared'.failures = shared.failures
    BY <1>1, <1>11 DEF WindowExpires, SharedStates
  <2> QED
    BY <1>1, <1>11, <2>1, OthersKeep DEF WindowExpires
<1>12. CASE UNCHANGED clientVars
  BY <1>1, <1>12, OthersKeep DEF clientVars
<1> QED
  BY <1>2, <1>3, <1>4, <1>5, <1>6, <1>7, <1>8, <1>9, <1>10, <1>11, <1>12 DEF ClientNext

LEMMA LimitsAlways == ClientSpec => []LimitsInv
BY ClientInitInv, ClientNextKeeps, PTL DEF ClientSpec

\* The shared state and every attempt stay well formed, whatever servers send.
THEOREM ClientTypeCorrect == ClientSpec => []ClientTypeOK
<1>1. LimitsInv => ClientTypeOK
  BY DEF LimitsInv
<1> QED
  BY <1>1, LimitsAlways, PTL

\* The codes shown since one was last verified stay within the round limit, but
\* for one round of each attempt another connection had begun.
THEOREM RoundsAlwaysBounded == ClientSpec => []RoundsBounded
<1>1. LimitsInv => RoundsBounded
  <2> SUFFICES ASSUME LimitsInv PROVE RoundsBounded
    OBVIOUS
  <2>1. AllShowing \in SUBSET Connections /\ shared.rounds \in Nat
    BY DEF AllShowing, LimitsInv, ClientTypeOK
  <2> QED
    BY <2>1, Countable, PairingAssumption DEF LimitsInv, Within, RoundsBounded
<1> QED
  BY <1>1, LimitsAlways, PTL

\* The wrong guesses at the static code stay within the window's, but for one of
\* each attempt another connection was running.
THEOREM FailuresAlwaysBounded == ClientSpec => []FailuresBounded
<1>1. LimitsInv => FailuresBounded
  <2> SUFFICES ASSUME LimitsInv PROVE FailuresBounded
    OBVIOUS
  <2>1. AllGuessing \in SUBSET Connections /\ shared.failures \in Nat
    BY DEF AllGuessing, LimitsInv, ClientTypeOK
  <2> QED
    BY <2>1, Countable, PairingAssumption DEF LimitsInv, Within, FailuresBounded
<1> QED
  BY <1>1, LimitsAlways, PTL

----------------------------------------------------------------------------
(* One connection to ServerPairing: PairingFlow, for the methods a pairing *)
(* code is entered in.  The messages.                                      *)

Reasons    == {"mismatch", "timeout", "cancelled"}
Entry      == [sid : Nat \X Nat, code : {"right", "wrong"}]
ClientSays ==
    [type : {"pending"}, index : Nat] \cup [type : {"init"}, index : Nat, commit : BOOLEAN]
    \cup [type : {"auth", "confirm"}, sid : Nat \X Nat] \cup [type : {"retry"}]
    \cup [type : {"finalize"}, psk : Nat, wrap : Nat \X Nat] \cup [type : {"abort"}, reason : Reasons]
ServerSays ==
    [type : {"activate"}, method : Methods \cup {"none"}] \cup [type : {"rehandshake"}, psk : Nat]
    \cup [type : {"init"}, nonce : BOOLEAN] \cup [type : {"auth", "confirm"}, entry : Entry]
    \cup [type : {"finalize"}] \cup [type : {"abort"}, reason : Reasons]

\* The client's attempt, and how many activations for pairing it has heard.
Its   == attempt[Conn]
Heard == pairingIndex[Conn]

\* An attempt in progress is of the last activation heard.
Current(a, heard) == Coherent(a) /\ (a.state \notin {"none", "done"} => a.index = heard /\ heard > 0 /\ a.method # "psk")

\* It has sent client/pair-init.
Opened(a) == a.state = (IF a.method = "dynamic" THEN "serverInit" ELSE "auth") /\ a.round = 1

\* Towards the client: what may come whatever its attempt is at, what its
\* attempt waits for, and what may come after a message.
Always(m)       == m.type \in {"activate", "abort", "rehandshake"}
IsActivation(m) == m.type = "activate" /\ m.method # "none"

Accepts(a, m) ==
    \/ a.state \in {"none", "done"} \/ Always(m)
    \/ a.state = "serverInit" /\ m.type = "init" /\ (m.nonce <=> a.round = 1)
    \/ a.state \in {"auth", "confirm", "finalize"} /\ m.type = a.state

Follows(m, n) ==
    \/ Always(n)
    \/ m.type \in {"abort", "finalize", "rehandshake"} \/ (m.type = "activate" /\ m.method = "none")
    \/ m.type = "init" /\ n.type = "auth"

Chained(q, a, heard) ==
    /\ q # <<>> => Accepts(a, q[1]) /\ (heard = 0 => IsActivation(q[1]))
    /\ \A n \in 1..Len(q) - 1 : Follows(q[n], q[n + 1])

\* The activations on their way, which the client is yet to count.
Activations(q)          == {n \in 1..Len(q) : IsActivation(q[n])}
Counted(heard, q, index) == heard + Cardinality(Activations(q)) = index

\* Towards the server: only of attempts the client has heard of.
Sent(q, heard) ==
    /\ q # <<>> => heard > 0
    /\ \A n \in 1..Len(q) : q[n].type \in {"pending", "init"} => q[n].index <= heard

\* The server has activated and waits for the client to begin.
Waiting(s, a, heard, ts, tc) ==
    /\ s.round = 0
    /\ tc = <<>> \/ tc[Len(tc)] = Activate(s.method)
    /\ s.index = 1 => \A n \in 1..Len(ts) : ts[n].type \in {"pending", "init", "abort"}
    /\ heard = s.index => a.state = "done" \/ (a.method = s.method /\ (a.state = "pending" \/ Opened(a)))
    /\ \A n \in 1..Len(ts) : ts[n].type = "init" /\ ts[n].index = s.index =>
          /\ ts[n].commit <=> s.method = "dynamic"
          /\ \/ n = Len(ts) /\ a.state \in {"serverInit", "auth"}
             \/ n = Len(ts) - 1 /\ ts[Len(ts)].type = "abort" /\ a.state = "done"

\* The client has begun: it is in the server's round, and what is in flight is
\* what the one has said and the other is yet to hear,
ItsSid(s) == <<s.index, s.round>>
Begins(s) == ServerInit(s.round = 1)
Proof(s)  == <<PairConfirm(ItsSid(s)), PairFinalize(s.index, ItsSid(s))>>

Together(s, a, ts, tc) ==
    \/ /\ s.state = "code" /\ a.round = s.round /\ ts = <<>>
       /\ \/ a.state = "serverInit" /\ tc = <<Begins(s)>>
          \/ a.state = "auth" /\ tc = <<>>
    \/ /\ s.state = "clientAuth" /\ a.round = s.round
       /\ \/ a.state = "serverInit" /\ ts = <<>> /\ tc = <<Begins(s), EntryOf("auth", s.entry)>>
          \/ a.state = "auth" /\ ts = <<>> /\ tc = <<EntryOf("auth", s.entry)>>
          \/ a.state = "confirm" /\ ts = <<PairAuth(ItsSid(s))>> /\ tc = <<>>
    \/ /\ s.state = "confirm"
       /\ \/ a.state = "confirm" /\ a.round = s.round /\ ts = <<>> /\ tc = <<EntryOf("confirm", s.entry)>>
          \/ a.state = "finalize" /\ ts = Proof(s) /\ tc = <<>>
          \/ /\ a.state = "serverInit" /\ a.round = s.round + 1 /\ ts = <<PairRetry>> /\ tc = <<>>
             /\ s.method = "dynamic" /\ Dialect = "specification"
    \/ s.state = "finalize" /\ a.state = "finalize" /\ ts = <<PairFinalize(s.index, ItsSid(s))>> /\ tc = <<>>

\* or it has gone, and its abort comes after what it had said.
Gone(s, a, ts, tc) ==
    /\ a.state = "done"
    /\ \E why \in Reasons :
          \/ /\ s.state \in {"code", "clientAuth", "confirm"} /\ ts = <<PairAbort(why)>>
             /\ s.state = "code" => tc \in {<<>>, <<Begins(s)>>}
             /\ \A n \in 1..Len(tc) : tc[n].type \in {"init", "auth", "confirm"}
          \/ s.state = "clientAuth" /\ ts = <<PairAuth(ItsSid(s)), PairAbort(why)>> /\ tc = <<>>
          \/ s.state = "confirm" /\ ts = Append(Proof(s), PairAbort(why)) /\ tc = <<>>
          \/ /\ s.state = "confirm" /\ ts = <<PairRetry, PairAbort(why)>> /\ tc = <<>>
             /\ s.method = "dynamic" /\ Dialect = "specification"
          \/ s.state = "finalize" /\ ts = <<PairFinalize(s.index, ItsSid(s)), PairAbort(why)>> /\ tc = <<>>

Talking(s, a, heard, ts, tc) ==
    /\ heard = s.index /\ s.round > 0
    /\ s.state # "code" => s.entry.sid = ItsSid(s)
    /\ (a.method = s.method /\ Together(s, a, ts, tc)) \/ Gone(s, a, ts, tc)

Serving(s) == s.state \in {"code", "clientAuth", "confirm", "finalize"}

ServerInv(s, index, a, heard, ts, tc) ==
    /\ s.state # "none" => index > 0
    /\ Running(s) => s.index = index /\ s.method \in Methods
    /\ s.state = "init" => Waiting(s, a, heard, ts, tc)
    /\ Serving(s) => Talking(s, a, heard, ts, tc)

\* Once the server has the client's PSK, its word of it comes first.
FinalFirst(q, record, heard) == \A n \in 1..Len(q) : q[n].type = "finalize" => n = 1 /\ record = heard
Unpaired(q)                  == \A n \in 1..Len(q) : q[n].type \notin {"finalize", "rehandshake"}

Linked(q, a, heard, index, record) ==
    Counted(heard, q, index) /\ Chained(q, a, heard) /\ FinalFirst(q, record, heard)

PeersInv ==
    /\ Current(Its, Heard) /\ Sent(toServer, Heard)
    /\ Conn \in live => Linked(toClient, Its, Heard, serverIndex, serverRecord)
    /\ phase = "active" =>
          /\ Conn \in live /\ clientRecord = NoRecord /\ serverRecord = NoRecord /\ Unpaired(toClient)
          /\ ServerInv(server, serverIndex, Its, Heard, toServer, toClient)

\* What is right, in flight or at the server, was entered for its attempt.
RightOf(q, entered) ==
    \A n \in 1..Len(q) :
        q[n].type \in {"auth", "confirm"} /\ q[n].entry.code = "right" => q[n].entry.sid[1] \in entered
RightAt(s, entered) ==
    /\ s.state \in {"clientAuth", "confirm", "finalize"} /\ s.entry.code = "right" => s.entry.sid[1] \in entered
    /\ s.state = "finalize" => s.entry.code = "right"

FlowInv ==
    /\ FlowTypeOK /\ NoProtocolError /\ RecordsAgree /\ RecordIsProved
    /\ toServer \in Seq(ClientSays) /\ toClient \in Seq(ServerSays)
    /\ PeersInv /\ RightOf(toClient, proved) /\ RightAt(server, proved)

----------------------------------------------------------------------------
(* Queues.                                                                 *)

LEMMA Concats ==
    ASSUME NEW S, NEW q \in Seq(S), NEW x \in S, NEW y \in S
    PROVE  /\ q \o <<>> = q /\ q \o <<x>> = Append(q, x)
           /\ q \o <<x, y>> = Append(Append(q, x), y)
<1>1. q \o <<>> = q
  BY ConcatEmptySeq
<1>2. q \o <<x>> = Append(q, x)
  BY AppendIsConcat
<1>3. q \o <<x, y>> = Append(Append(q, x), y)
  <2>1. <<x>> \in Seq(S) /\ <<y>> \in Seq(S)
    OBVIOUS
  <2>2. <<x, y>> = Append(<<x>>, y)
    OBVIOUS
  <2>3. <<x, y>> = <<x>> \o <<y>>
    BY <2>1, <2>2, AppendIsConcat
  <2>4. q \o (<<x>> \o <<y>>) = (q \o <<x>>) \o <<y>>
    BY <2>1, ConcatAssociative
  <2>5. Append(q, x) \o <<y>> = Append(Append(q, x), y)
    BY AppendIsConcat, AppendProperties
  <2> QED
    BY <1>2, <2>3, <2>4, <2>5
<1> QED
  BY <1>1, <1>2, <1>3

LEMMA Appended ==
    ASSUME NEW S, NEW q \in Seq(S), NEW x \in S
    PROVE  /\ Append(q, x) \in Seq(S) /\ Len(Append(q, x)) = Len(q) + 1 /\ Len(q) \in Nat
           /\ \A n \in 1..Len(q) : Append(q, x)[n] = q[n] /\ q[n] \in S
           /\ Append(q, x)[Len(q) + 1] = x /\ Append(q, x) # <<>>
OBVIOUS

LEMMA Shifted ==
    ASSUME NEW S, NEW q \in Seq(S), q # <<>>
    PROVE  /\ Tail(q) \in Seq(S) /\ Len(Tail(q)) = Len(q) - 1 /\ Len(q) \in Nat \ {0} /\ Head(q) = q[1]
           /\ \A n \in 1..Len(Tail(q)) : n + 1 \in 1..Len(q) /\ Tail(q)[n] = q[n + 1] /\ q[n + 1] \in S
           /\ q[1] \in S
OBVIOUS

LEMMA Written ==
    ASSUME NEW x, NEW y, NEW z
    PROVE  /\ Append(<<>>, x) = <<x>> /\ Append(<<x>>, y) = <<x, y>>
           /\ Tail(<<x>>) = <<>> /\ Tail(<<x, y>>) = <<y>> /\ Tail(<<x, y, z>>) = <<y, z>>
<1> DEFINE S == {x, y, z}
<1>1. Append(<<>>, x) = <<x>>
  OBVIOUS
<1>2. Append(<<x>>, y) = <<x, y>>
  <2>1. <<x>> \in Seq(S) /\ <<x, y>> \in Seq(S) /\ y \in S
    OBVIOUS
  <2>2. /\ Append(<<x>>, y) \in Seq(S) /\ Len(Append(<<x>>, y)) = 2
        /\ \A n \in 1..2 : Append(<<x>>, y)[n] = <<x, y>>[n]
    BY <2>1
  <2> QED
    BY <2>1, <2>2, SeqEqual
<1>3. Tail(<<x>>) = <<>>
  OBVIOUS
<1>4. Tail(<<x, y>>) = <<y>>
  OBVIOUS
<1>5. Tail(<<x, y, z>>) = <<y, z>>
  OBVIOUS
<1> QED
  BY <1>1, <1>2, <1>3, <1>4, <1>5

LEMMA WrittenThird == \A x, y, z : Append(<<x, y>>, z) = <<x, y, z>>
<1> TAKE x, y, z
<1> DEFINE S == {x, y, z}
<1>1. <<x, y>> \in Seq(S) /\ <<x, y, z>> \in Seq(S) /\ z \in S
  OBVIOUS
<1>2. /\ Append(<<x, y>>, z) \in Seq(S) /\ Len(Append(<<x, y>>, z)) = 3
      /\ \A n \in 1..3 : Append(<<x, y>>, z)[n] = <<x, y, z>>[n]
  BY <1>1
<1> QED
  BY <1>1, <1>2, SeqEqual

LEMMA Short ==
    ASSUME NEW S, NEW q \in Seq(S)
    PROVE  /\ Len(q) = 1 => q = <<q[1]>> /\ q[1] \in S /\ Tail(q) = <<>>
           /\ Len(q) = 2 => q[2] \in S /\ Tail(q) = <<q[2]>>
           /\ q # <<>> /\ Tail(q) = <<>> => Len(q) = 1
<1>1. ASSUME Len(q) = 1 PROVE q = <<q[1]>> /\ q[1] \in S /\ Tail(q) = <<>>
  <2>1. q[1] \in S /\ q # <<>>
    BY <1>1
  <2>2. Tail(q) \in Seq(S) /\ Len(Tail(q)) = 0
    BY <1>1, <2>1, Shifted
  <2>3. Tail(q) = <<>>
    BY <2>2, EmptySeq
  <2>4. q = <<q[1]>>
    BY <1>1, <2>1
  <2> QED
    BY <2>1, <2>3, <2>4
<1>2. ASSUME Len(q) = 2 PROVE q[2] \in S /\ Tail(q) = <<q[2]>>
  <2>0. 1 \in 1..Len(q) /\ 2 \in 1..Len(q)
    BY <1>2
  <2>1. q[2] \in S /\ q # <<>>
    BY <1>2, <2>0, ElementOfSeq, EmptySeq
  <2>2. Tail(q) \in Seq(S) /\ Len(Tail(q)) = 1 /\ Tail(q)[1] = q[2]
    BY <1>2, <2>1, Shifted
  <2>3. <<q[2]>> \in Seq(S) /\ Len(<<q[2]>>) = 1 /\ \A n \in 1..1 : Tail(q)[n] = <<q[2]>>[n]
    BY <2>1, <2>2
  <2>4. Tail(q) = <<q[2]>>
    BY <2>2, <2>3, SeqEqual
  <2> QED
    BY <2>1, <2>4
<1>3. ASSUME q # <<>>, Tail(q) = <<>> PROVE Len(q) = 1
  <2>1. Len(Tail(q)) = Len(q) - 1 /\ Len(q) \in Nat
    BY <1>3, Shifted
  <2>2. Len(Tail(q)) = 0
    BY <1>3, EmptySeq
  <2> QED
    BY <2>1, <2>2
<1> QED
  BY <1>1, <1>2, <1>3

LEMMA Activating ==
    ASSUME NEW q \in Seq(ServerSays)
    PROVE  /\ IsFiniteSet(Activations(q)) /\ Cardinality(Activations(q)) \in Nat
           /\ Cardinality(Activations(q)) = 0 => \A n \in 1..Len(q) : ~IsActivation(q[n])
           /\ \A n \in 1..Len(q) : IsActivation(q[n]) => Cardinality(Activations(q)) > 0
<1>1. IsFiniteSet(1..Len(q)) /\ Activations(q) \subseteq 1..Len(q)
  BY FS_Interval DEF Activations
<1>2. IsFiniteSet(Activations(q)) /\ Cardinality(Activations(q)) \in Nat
  BY <1>1, FS_Subset, FS_CardinalityType
<1>3. Cardinality(Activations(q)) = 0 <=> Activations(q) = {}
  BY <1>2, FS_EmptySet
<1>4. \A n \in 1..Len(q) : n \in Activations(q) <=> IsActivation(q[n])
  BY DEF Activations
<1>5. Cardinality(Activations(q)) = 0 => \A n \in 1..Len(q) : ~IsActivation(q[n])
  BY <1>3, <1>4
<1>6. \A n \in 1..Len(q) : IsActivation(q[n]) => Cardinality(Activations(q)) # 0
  BY <1>3, <1>4
<1> QED
  BY <1>2, <1>5, <1>6

LEMMA ActivationSent ==
    ASSUME NEW q \in Seq(ServerSays), NEW m \in ServerSays
    PROVE  Cardinality(Activations(Append(q, m)))
             = Cardinality(Activations(q)) + (IF IsActivation(m) THEN 1 ELSE 0)
<1> DEFINE k == Len(q) + 1
<1>1. /\ k \in Nat /\ k \notin Activations(q) /\ IsFiniteSet(Activations(q)) /\ 1..k = (1..Len(q)) \cup {k}
  BY Activating DEF Activations
<1>2. /\ Len(Append(q, m)) = k /\ Append(q, m)[k] = m
      /\ \A n \in 1..Len(q) : Append(q, m)[n] = q[n]
  BY Appended
<1>3. Activations(Append(q, m)) = {n \in 1..k : IsActivation(Append(q, m)[n])}
  BY <1>2 DEF Activations
<1> HIDE DEF k
<1>4. CASE IsActivation(m)
  <2>1. Activations(Append(q, m)) = Activations(q) \cup {k}
    BY <1>1, <1>2, <1>3, <1>4 DEF Activations
  <2> QED
    BY <1>1, <1>4, <2>1, FS_AddElement
<1>5. CASE ~IsActivation(m)
  <2>1. Activations(Append(q, m)) = Activations(q)
    BY <1>1, <1>2, <1>3, <1>5 DEF Activations
  <2> QED
    BY <1>5, <2>1, Activating
<1> QED
  BY <1>4, <1>5

LEMMA ActivationHeard ==
    ASSUME NEW q \in Seq(ServerSays), q # <<>>
    PROVE  Cardinality(Activations(q))
             = Cardinality(Activations(Tail(q))) + (IF IsActivation(q[1]) THEN 1 ELSE 0)
<1> DEFINE late == Activations(q) \ {1}
           f    == [n \in Activations(Tail(q)) |-> n + 1]
<1>1. /\ Tail(q) \in Seq(ServerSays) /\ Len(Tail(q)) = Len(q) - 1 /\ Len(q) \in Nat \ {0}
      /\ \A n \in 1..Len(Tail(q)) : n + 1 \in 1..Len(q) /\ Tail(q)[n] = q[n + 1]
  BY Shifted
<1>2. IsFiniteSet(Activations(q)) /\ IsFiniteSet(Activations(Tail(q)))
  BY <1>1, Activating
<1>3. f \in [Activations(Tail(q)) -> late]
  <2>1. ASSUME NEW n \in Activations(Tail(q)) PROVE n + 1 \in late
    BY <1>1, <2>1 DEF Activations
  <2> QED
    BY <2>1
<1>4. \A k \in late : k - 1 \in Activations(Tail(q)) /\ f[k - 1] = k
  <2> SUFFICES ASSUME NEW k \in late PROVE k - 1 \in Activations(Tail(q)) /\ f[k - 1] = k
    OBVIOUS
  <2>1. k \in 2..Len(q) /\ IsActivation(q[k])
    BY DEF Activations
  <2>2. k - 1 \in 1..Len(Tail(q)) /\ (k - 1) + 1 = k
    BY <1>1, <2>1
  <2>3. k - 1 \in Activations(Tail(q))
    BY <1>1, <2>1, <2>2 DEF Activations
  <2> QED
    BY <2>2, <2>3
<1>5. f \in Bijection(Activations(Tail(q)), late)
  <2>1. \A x, y \in Activations(Tail(q)) : f[x] = f[y] => x = y
    BY DEF Activations
  <2> QED
    BY <1>3, <1>4, <2>1 DEF Bijection, Injection, Surjection, IsInjective
<1>6. Cardinality(late) = Cardinality(Activations(Tail(q)))
  BY <1>2, <1>5, FS_Bijection DEF ExistsBijection
<1>7. IsFiniteSet(late) /\ Cardinality(late) \in Nat /\ 1 \notin late
  BY <1>2, FS_Subset, FS_CardinalityType
<1> HIDE DEF f
<1>8. CASE IsActivation(q[1])
  <2>1. Activations(q) = late \cup {1}
    BY <1>1, <1>8 DEF Activations
  <2>2. Cardinality(late \cup {1}) = Cardinality(late) + 1
    BY <1>7, FS_AddElement
  <2> HIDE DEF late
  <2> QED
    BY <1>6, <1>8, <2>1, <2>2
<1>9. CASE ~IsActivation(q[1])
  <2>1. Activations(q) = late
    BY <1>9 DEF Activations
  <2> HIDE DEF late
  <2> QED
    BY <1>6, <1>7, <1>9, <2>1
<1> QED
  BY <1>8, <1>9

----------------------------------------------------------------------------
(* What either side may say.                                               *)

LEMMA ServerMessage ==
    /\ \A method \in Methods \cup {"none"} : Activate(method) \in ServerSays
    /\ \A psk \in Nat : Rehandshake(psk) \in ServerSays
    /\ \A nonce \in BOOLEAN : ServerInit(nonce) \in ServerSays
    /\ \A t \in {"auth", "confirm"}, e \in Entry : EntryOf(t, e) \in ServerSays
    /\ [type |-> "finalize"] \in ServerSays
    /\ \A why \in Reasons : PairAbort(why) \in ServerSays
BY DEF ServerSays, Activate, Rehandshake, ServerInit, EntryOf, PairAbort

LEMMA ClientMessage ==
    /\ \A i \in Nat : PairPending(i) \in ClientSays /\ \A method : PairInit(i, method) \in ClientSays
    /\ \A sid \in Nat \X Nat : PairAuth(sid) \in ClientSays /\ PairConfirm(sid) \in ClientSays
    /\ \A i \in Nat, sid \in Nat \X Nat : PairFinalize(i, sid) \in ClientSays
    /\ PairRetry \in ClientSays
    /\ \A why \in Reasons : PairAbort(why) \in ClientSays
BY DEF ClientSays, PairPending, PairInit, PairAuth, PairConfirm, PairFinalize, PairRetry, PairAbort

LEMMA ServerKinds ==
    ASSUME NEW m \in ServerSays
    PROVE  /\ m.type \in {"activate", "rehandshake", "init", "auth", "confirm", "finalize", "abort"}
           /\ m.type = "activate" => m.method \in Methods \cup {"none"}
           /\ m.type = "init" => m.nonce \in BOOLEAN
           /\ m.type \in {"auth", "confirm"} => m.entry \in Entry
           /\ m.type = "rehandshake" => m.psk \in Nat
           /\ m.type = "abort" => m.reason \in Reasons
BY DEF ServerSays

LEMMA ClientKinds ==
    ASSUME NEW m \in ClientSays
    PROVE  /\ m.type \in {"pending", "init", "auth", "confirm", "retry", "finalize", "abort"}
           /\ m.type \in {"pending", "init"} => m.index \in Nat
           /\ m.type = "init" => m.commit \in BOOLEAN
           /\ m.type \in {"auth", "confirm"} => m.sid \in Nat \X Nat
           /\ m.type = "finalize" => m.psk \in Nat
           /\ m.type = "abort" => m = PairAbort(m.reason) /\ m.reason \in Reasons
BY DEF ClientSays, PairAbort

----------------------------------------------------------------------------
(* What is on its way stays in order.                                      *)

LEMMA ChainSent ==
    ASSUME NEW q \in Seq(ServerSays), NEW a, NEW heard, Chained(q, a, heard), NEW m \in ServerSays,
           q = <<>> => Accepts(a, m) /\ (heard = 0 => IsActivation(m)),
           q # <<>> => Follows(q[Len(q)], m)
    PROVE  Chained(Append(q, m), a, heard)
<1> DEFINE p == Append(q, m)
<1>1. /\ Len(p) = Len(q) + 1 /\ Len(q) \in Nat /\ p # <<>> /\ p[Len(q) + 1] = m
      /\ \A n \in 1..Len(q) : p[n] = q[n]
  BY Appended
<1>2. q = <<>> <=> Len(q) = 0
  OBVIOUS
<1> HIDE DEF p
<1>3. Accepts(a, p[1]) /\ (heard = 0 => IsActivation(p[1]))
  <2>1. CASE q = <<>>
    BY <1>1, <1>2, <2>1
  <2>2. CASE q # <<>>
    <3>1. p[1] = q[1]
      BY <1>1, <1>2, <2>2
    <3> QED
      BY <2>2, <3>1 DEF Chained
  <2> QED
    BY <2>1, <2>2
<1>4. ASSUME NEW n \in 1..Len(p) - 1 PROVE Follows(p[n], p[n + 1])
  <2>1. n \in 1..Len(q) /\ q # <<>> /\ p[n] = q[n]
    BY <1>1, <1>2
  <2>2. CASE n = Len(q)
    BY <1>1, <2>1, <2>2
  <2>3. CASE n # Len(q)
    <3>1. n \in 1..Len(q) - 1 /\ n + 1 \in 1..Len(q)
      BY <1>1, <2>1, <2>3
    <3> QED
      BY <1>1, <2>1, <3>1 DEF Chained
  <2> QED
    BY <2>2, <2>3
<1> QED
  BY <1>1, <1>3, <1>4 DEF Chained, p

LEMMA ChainHeard ==
    ASSUME NEW q \in Seq(ServerSays), q # <<>>, NEW a, NEW heard, Chained(q, a, heard),
           NEW after, NEW now \in Nat \ {0}, \A m \in ServerSays : Follows(q[1], m) => Accepts(after, m)
    PROVE  Chained(Tail(q), after, now)
<1>1. /\ Len(Tail(q)) = Len(q) - 1 /\ Len(q) \in Nat \ {0} /\ Tail(q) \in Seq(ServerSays)
      /\ \A n \in 1..Len(Tail(q)) : n + 1 \in 1..Len(q) /\ Tail(q)[n] = q[n + 1] /\ q[n + 1] \in ServerSays
  BY Shifted
<1>2. \A n \in 1..Len(Tail(q)) : Follows(q[n], Tail(q)[n])
  BY <1>1 DEF Chained
<1>3. Tail(q) # <<>> => Accepts(after, Tail(q)[1])
  <2> SUFFICES ASSUME Tail(q) # <<>> PROVE Accepts(after, Tail(q)[1])
    OBVIOUS
  <2>1. 1 \in 1..Len(Tail(q))
    BY <1>1
  <2> QED
    BY <1>1, <1>2, <2>1
<1>4. ASSUME NEW n \in 1..Len(Tail(q)) - 1 PROVE Follows(Tail(q)[n], Tail(q)[n + 1])
  <2>1. n \in 1..Len(Tail(q)) /\ n + 1 \in 1..Len(Tail(q))
    BY <1>1
  <2> QED
    BY <1>1, <1>2, <2>1
<1> QED
  BY <1>3, <1>4 DEF Chained

\* A message the other side does not wait for may come at any time.
LEMMA AlwaysSent ==
    ASSUME NEW q \in Seq(ServerSays), NEW a, NEW heard, Chained(q, a, heard), NEW m \in ServerSays,
           Always(m), q = <<>> /\ heard = 0 => IsActivation(m)
    PROVE  Chained(Append(q, m), a, heard)
BY ChainSent DEF Accepts, Follows

LEMMA SentMore ==
    ASSUME NEW q \in Seq(ClientSays), NEW heard \in Nat, Sent(q, heard), NEW now \in Nat, now > 0, heard <= now,
           NEW m \in ClientSays, m.type \in {"pending", "init"} => m.index <= now
    PROVE  Sent(Append(q, m), now)
<1>1. /\ Len(Append(q, m)) = Len(q) + 1 /\ Len(q) \in Nat
      /\ \A n \in 1..Len(q) : Append(q, m)[n] = q[n] /\ q[n] \in ClientSays
      /\ Append(q, m)[Len(q) + 1] = m
  BY Appended
<1>2. ASSUME NEW n \in 1..Len(q) + 1, Append(q, m)[n].type \in {"pending", "init"}
      PROVE  Append(q, m)[n].index <= now
  <2>1. CASE n = Len(q) + 1
    BY <1>1, <1>2, <2>1
  <2>2. CASE n # Len(q) + 1
    <3>1. n \in 1..Len(q) /\ Append(q, m)[n] = q[n] /\ q[n] \in ClientSays
      BY <1>1, <2>2
    <3>2. q[n].index <= heard /\ q[n].index \in Nat
      BY <1>2, <3>1, ClientKinds DEF Sent
    <3> QED
      BY <3>1, <3>2
  <2> QED
    BY <2>1, <2>2
<1> QED
  BY <1>1, <1>2 DEF Sent

LEMMA SentRead ==
    ASSUME NEW q \in Seq(ClientSays), q # <<>>, NEW heard, Sent(q, heard)
    PROVE  Sent(Tail(q), heard)
BY Shifted DEF Sent

LEMMA SentNone ==
    ASSUME NEW heard
    PROVE  Sent(<<>>, heard)
BY DEF Sent

----------------------------------------------------------------------------
(* What the client's handlers say.                                         *)

LEMMA StartSays ==
    ASSUME NEW method \in Methods, method # "psk", NEW index \in Nat, NEW sh, NEW c,
           NEW step, step = Start(method, index, sh, c)
    PROVE  /\ step.after = "continue" /\ step.attempt.index = index /\ step.attempt.method = method
           /\ \/ step.attempt.state = "pending" /\ step.out = <<PairPending(index)>>
              \/ Opened(step.attempt) /\ step.out = <<PairInit(index, method)>>
<1> DEFINE a == [NoAttempt EXCEPT !.method = method, !.index = index]
<1>1. a \in AttemptRecords /\ a.method = method /\ a.index = index
  BY PairingAssumption DEF NoAttempt, NoEntry, NoSid, AttemptRecords, States
<1> HIDE DEF a
<1>2. CASE MayStart(a, sh, c)
  <2>1. step = BeginAttempt(a, sh, c)
    BY <1>2 DEF Start, a
  <2>2. /\ step.after = "continue" /\ step.out = <<PairInit(a.index, a.method)>>
        /\ step.attempt = [a EXCEPT !.round = 1, !.state = IF a.method = "dynamic" THEN "serverInit" ELSE "auth"]
    BY <2>1 DEF BeginAttempt, Step
  <2>3. /\ step.attempt.index = index /\ step.attempt.method = method /\ step.attempt.round = 1
        /\ step.attempt.state = IF method = "dynamic" THEN "serverInit" ELSE "auth"
    BY <1>1, <2>2 DEF AttemptRecords
  <2> QED
    BY <1>1, <2>2, <2>3 DEF Opened
<1>3. CASE ~MayStart(a, sh, c)
  <2>1. step = Step("continue", [a EXCEPT !.state = "pending"], sh, <<PairPending(index)>>)
    BY <1>3 DEF Start, a
  <2> QED
    BY <1>1, <2>1 DEF Step, AttemptRecords
<1> QED
  BY <1>2, <1>3

LEMMA ResumeSays ==
    ASSUME NEW a \in AttemptRecords, NEW sh, NEW c, NEW step, step = Resume(a, sh, c)
    PROVE  /\ step.after = "continue"
           /\ \/ step.attempt = a /\ step.out = <<>>
              \/ /\ a.state = "pending" /\ Opened(step.attempt) /\ step.out = <<PairInit(a.index, a.method)>>
                 /\ step.attempt.index = a.index /\ step.attempt.method = a.method
<1>1. CASE a.state = "pending" /\ MayStart(a, sh, c)
  BY <1>1 DEF Resume, BeginAttempt, Step, Opened, AttemptRecords
<1>2. CASE ~(a.state = "pending" /\ MayStart(a, sh, c))
  BY <1>2 DEF Resume, Step
<1> QED
  BY <1>1, <1>2

Outcome(a, m, after, out) ==
    \/ a.state = "done" /\ after = a /\ out = <<>>
    \/ m.type = "abort" /\ after.state = "done" /\ out = <<>>
    \/ a.state = "finalize" /\ m.type = "finalize" /\ after.state = "done" /\ out = <<>>
    \/ a.state = "confirm" /\ m.type = "confirm" /\ after.state = "done" /\ out = <<PairAbort("mismatch")>>
    \/ /\ after.method = a.method /\ after.index = a.index
       /\ \/ /\ a.state = "serverInit" /\ m.type = "init" /\ after.state = "auth" /\ after.round = a.round
             /\ out = <<>>
          \/ /\ a.state = "auth" /\ m.type = "auth" /\ after.state = "confirm" /\ after.round = a.round
             /\ out = <<PairAuth(Sid(a))>>
          \/ /\ a.state = "confirm" /\ m.type = "confirm" /\ after.state = "finalize" /\ Verifies(a, m)
             /\ out = <<PairConfirm(Sid(a)), PairFinalize(a.index, Sid(a))>>
          \/ /\ a.state = "confirm" /\ m.type = "confirm" /\ after.state = "serverInit" /\ after.round = a.round + 1
             /\ a.method = "dynamic" /\ Dialect = "specification" /\ out = <<PairRetry>>

LEMMA MismatchSays ==
    ASSUME NEW a \in AttemptRecords, a.method # "psk", NEW sh, NEW step, step = Mismatch(a, sh)
    PROVE  \/ step.after = "ended" /\ step.attempt.state = "done" /\ step.out = <<PairAbort("mismatch")>>
           \/ /\ step.after = "continue" /\ step.out = <<PairRetry>>
              /\ a.method = "dynamic" /\ Dialect = "specification"
              /\ step.attempt.method = a.method /\ step.attempt.index = a.index
              /\ step.attempt.state = "serverInit" /\ step.attempt.round = a.round + 1
<1>0. Done(a).state = "done"
  BY DEF Done, NoAttempt
<1>1. CASE a.method = "static"
  BY <1>0, <1>1 DEF Mismatch, Abort, Step
<1>2. CASE a.method # "static" /\ (HoldingBack(sh) \/ Dialect = "aiosendspin911")
  BY <1>0, <1>2 DEF Mismatch, Abort, Step
<1>3. CASE a.method # "static" /\ ~(HoldingBack(sh) \/ Dialect = "aiosendspin911")
  <2>1. a.method = "dynamic" /\ Dialect = "specification"
    BY <1>3, PairingAssumption DEF AttemptRecords
  <2> QED
    BY <1>3, <2>1 DEF Mismatch, Step, AttemptRecords
<1> QED
  BY <1>1, <1>2, <1>3

\* No message that may come is out of sequence.
LEMMA ReceiveSays ==
    ASSUME NEW a \in AttemptRecords, NEW heard, Current(a, heard), NEW sh, NEW m \in ServerSays,
           a.state # "none", Accepts(a, m), m.type \notin {"activate", "rehandshake"},
           NEW step, step = Receive(a, sh, m)
    PROVE  step.after \notin {"close", "error"} /\ Outcome(a, m, step.attempt, step.out)
<1>0. Done(a).state = "done"
  BY DEF Done, NoAttempt
<1>1. CASE a.state = "done"
  BY <1>1 DEF Receive, Step, Outcome
<1>2. CASE a.state # "done" /\ m.type = "abort"
  BY <1>0, <1>2, ServerKinds DEF Receive, Step, Outcome, Reasons
<1>3. CASE a.state = "serverInit" /\ m.type = "init"
  <2>1. step = RoundBegins(a, sh)
    BY <1>3 DEF Receive, Accepts, Always
  <2> QED
    BY <1>3, <2>1 DEF RoundBegins, Step, Outcome, AttemptRecords
<1>4. CASE a.state = "auth" /\ m.type = "auth"
  BY <1>4 DEF Receive, Step, Outcome, AttemptRecords
<1>5. CASE a.state = "confirm" /\ m.type = "confirm" /\ Verifies(a, m)
  <2>1. step = Verified(a, sh)
    BY <1>5 DEF Receive
  <2>2. /\ step.after = "continue" /\ step.out = <<PairConfirm(Sid(a)), PairFinalize(a.index, Sid(a))>>
        /\ step.attempt = [a EXCEPT !.state = "finalize", !.heard = NoEntry]
    BY <2>1 DEF Verified, Step
  <2>3. step.attempt.state = "finalize" /\ step.attempt.method = a.method /\ step.attempt.index = a.index
    BY <2>2 DEF AttemptRecords
  <2> QED
    BY <1>5, <2>2, <2>3 DEF Outcome
<1>6. CASE a.state = "confirm" /\ m.type = "confirm" /\ ~Verifies(a, m)
  <2>1. step = Mismatch(a, sh) /\ a.method # "psk"
    BY <1>6 DEF Receive, Current
  <2> QED
    BY <1>6, <2>1, MismatchSays DEF Outcome
<1>7. CASE a.state = "finalize" /\ m.type = "finalize"
  BY <1>0, <1>7 DEF Receive, Step, Outcome
<1> QED
  BY <1>1, <1>2, <1>3, <1>4, <1>5, <1>6, <1>7, ServerKinds DEF Accepts, Always, AttemptRecords, States

\* A message that follows one the client waited for is what it then waits for.
LEMMA OutcomeAccepts ==
    ASSUME NEW a, NEW heard, NEW m \in ServerSays, NEW after, NEW out, Outcome(a, m, after, out),
           m.type \notin {"activate", "rehandshake"}, NEW n \in ServerSays, Follows(m, n)
    PROVE  Accepts(after, n)
BY DEF Outcome, Follows, Accepts, Always

----------------------------------------------------------------------------
(* The server's attempt, as the client goes on.                            *)

Peers(s, index, a, heard, ts, tc) ==
    /\ s \in ServerAttempts /\ index \in Nat /\ a \in AttemptRecords /\ heard \in Nat
    /\ ts \in Seq(ClientSays) /\ tc \in Seq(ServerSays)
    /\ Current(a, heard) /\ Sent(ts, heard) /\ Counted(heard, tc, index) /\ Chained(tc, a, heard)
    /\ ServerInv(s, index, a, heard, ts, tc)

LEMMA Named == \A method \in Methods : method # "none"
BY PairingAssumption

\* A client that has heard the last activation has no message before it left.
LEMMA UpToDate ==
    ASSUME NEW s, NEW index, NEW a, NEW heard, NEW ts, NEW tc, Peers(s, index, a, heard, ts, tc),
           s.state = "init" \/ Serving(s)
    PROVE  /\ s.index = index /\ s.index \in Nat /\ heard <= s.index /\ s.method \in Methods
           /\ heard = s.index => \A n \in 1..Len(tc) : ~IsActivation(tc[n])
           /\ heard = s.index /\ s.state = "init" => tc = <<>>
           /\ Serving(s) => heard = s.index /\ s.index > 0 /\ Talking(s, a, heard, ts, tc)
           /\ s.state = "init" => Waiting(s, a, heard, ts, tc)
<1>1. s.index = index /\ s.method \in Methods /\ s.index \in Nat /\ heard \in Nat /\ index > 0
  BY DEF Peers, ServerInv, Running, Serving, ServerAttempts
<1>2. /\ s.state = "init" => Waiting(s, a, heard, ts, tc)
      /\ Serving(s) => Talking(s, a, heard, ts, tc)
  BY DEF Peers, ServerInv
<1>3. tc \in Seq(ServerSays) /\ heard + Cardinality(Activations(tc)) = index /\ Cardinality(Activations(tc)) \in Nat
  BY Activating DEF Peers, Counted
<1>4. heard <= s.index /\ (heard = s.index => Cardinality(Activations(tc)) = 0)
  BY <1>1, <1>3
<1>5. heard = s.index => \A n \in 1..Len(tc) : ~IsActivation(tc[n])
  BY <1>3, <1>4, Activating
<1>6. ASSUME heard = s.index, s.state = "init" PROVE tc = <<>>
  <2>1. ASSUME tc # <<>> PROVE FALSE
    <3>1. Len(tc) \in 1..Len(tc) /\ tc[Len(tc)] = Activate(s.method)
      BY <1>2, <1>3, <1>6, <2>1 DEF Waiting
    <3>2. IsActivation(tc[Len(tc)])
      BY <1>1, <3>1, Named DEF IsActivation, Activate
    <3> QED
      BY <1>5, <1>6, <3>1, <3>2
  <2> QED
    BY <2>1
<1>7. Serving(s) => heard = s.index
  BY <1>2 DEF Talking
<1> QED
  BY <1>1, <1>2, <1>4, <1>5, <1>6, <1>7

\* A client that has not heard the server's activation disturbs nothing.
LEMMA Distant ==
    ASSUME NEW s, s.index \in Nat, NEW heard \in Nat, heard < s.index, s.round = 0, NEW a,
           NEW ts \in Seq(ClientSays), Sent(ts, heard), NEW tc, tc = <<>> \/ tc[Len(tc)] = Activate(s.method)
    PROVE  Waiting(s, a, heard, ts, tc)
<1>1. s.index = 1 => ts = <<>>
  BY DEF Sent
<1>2. s.index = 1 => \A n \in 1..Len(ts) : ts[n].type \in {"pending", "init", "abort"}
  BY <1>1
<1>3. \A n \in 1..Len(ts) : ts[n].type = "init" => ts[n].index # s.index
  <2> SUFFICES ASSUME NEW n \in 1..Len(ts), ts[n].type = "init" PROVE ts[n].index # s.index
    OBVIOUS
  <2>1. ts[n] \in ClientSays /\ ts[n].index <= heard
    BY DEF Sent
  <2>2. ts[n].index \in Nat
    BY <2>1, ClientKinds
  <2> QED
    BY <2>1, <2>2
<1> QED
  BY <1>2, <1>3 DEF Waiting

LEMMA LastOfTail ==
    ASSUME NEW s, NEW tc \in Seq(ServerSays), tc # <<>>, tc[Len(tc)] = Activate(s.method)
    PROVE  Tail(tc) = <<>> \/ Tail(tc)[Len(Tail(tc))] = Activate(s.method)
OBVIOUS

\* No attempt of the server's is disturbed by what is not in it.
LEMMA NotServing ==
    ASSUME NEW s, NEW index, NEW a, NEW heard, NEW ts, NEW tc, ServerInv(s, index, a, heard, ts, tc),
           s.state # "init", ~Serving(s), NEW after, NEW now, NEW ts2, NEW tc2
    PROVE  ServerInv(s, index, after, now, ts2, tc2)
BY DEF ServerInv

\* The client hears an activation for pairing, and begins or holds back.
LEMMA ClientStarts ==
    ASSUME NEW s, NEW index, NEW a, NEW heard, NEW ts, NEW tc, Peers(s, index, a, heard, ts, tc),
           tc # <<>>, NEW method \in Methods, method # "psk", tc[1] = Activate(method),
           NEW after, after.method = method, NEW m \in ClientSays,
           \/ after.state = "pending" /\ m = PairPending(heard + 1)
           \/ Opened(after) /\ m = PairInit(heard + 1, method)
    PROVE  ServerInv(s, index, after, heard + 1, Append(ts, m), Tail(tc))
<1>1. heard \in Nat /\ ts \in Seq(ClientSays) /\ tc \in Seq(ServerSays) /\ Sent(ts, heard)
  BY DEF Peers
<1>2. IsActivation(tc[1]) /\ 1 \in 1..Len(tc)
  BY <1>1, Named DEF IsActivation, Activate
<1>3. m.type \in {"pending", "init"} /\ m.index = heard + 1
  BY DEF PairPending, PairInit
<1>4. Sent(Append(ts, m), heard + 1)
  BY <1>1, <1>3, SentMore
<1>5. CASE s.state # "init" /\ ~Serving(s)
  BY <1>5, NotServing DEF Peers
<1>6. CASE Serving(s)
  BY <1>2, <1>6, UpToDate
<1>7. CASE s.state = "init"
  <2>1. /\ s.index = index /\ s.index \in Nat /\ heard <= s.index /\ s.method \in Methods
        /\ heard # s.index /\ Waiting(s, a, heard, ts, tc)
    BY <1>2, <1>7, UpToDate
  <2>2. s.round = 0 /\ tc[Len(tc)] = Activate(s.method)
    BY <2>1 DEF Waiting
  <2>3. CASE heard + 1 # s.index
    <3>1. heard + 1 < s.index /\ heard + 1 \in Nat /\ Append(ts, m) \in Seq(ClientSays)
      BY <1>1, <2>1, <2>3
    <3>2. Waiting(s, after, heard + 1, Append(ts, m), Tail(tc))
      BY <1>1, <1>4, <2>1, <2>2, <3>1, Distant, LastOfTail
    <3> QED
      BY <1>7, <3>2 DEF Peers, ServerInv, Serving
  <2>4. CASE heard + 1 = s.index
    <3>1. Tail(tc) \in Seq(ServerSays) /\ Cardinality(Activations(Tail(tc))) = 0
      <4>1. Cardinality(Activations(tc)) = Cardinality(Activations(Tail(tc))) + 1 /\ Tail(tc) \in Seq(ServerSays)
        BY <1>1, <1>2, ActivationHeard
      <4>2. heard + Cardinality(Activations(tc)) = index /\ Cardinality(Activations(Tail(tc))) \in Nat
        BY <4>1, Activating DEF Peers, Counted
      <4> QED
        BY <1>1, <2>1, <2>4, <4>1, <4>2
    <3>2. Tail(tc) = <<>>
      <4>1. ASSUME Tail(tc) # <<>> PROVE FALSE
        <5>1. Tail(tc)[Len(Tail(tc))] = Activate(s.method) /\ Len(Tail(tc)) \in 1..Len(Tail(tc))
          BY <1>1, <2>2, <3>1, <4>1, LastOfTail
        <5>2. IsActivation(Activate(s.method))
          BY <2>1, Named DEF IsActivation, Activate
        <5> QED
          BY <3>1, <5>1, <5>2, Activating
      <4> QED
        BY <4>1
    <3>3. s.method = method
      <4>1. Len(tc) = 1
        BY <1>1, <3>2, Short
      <4> QED
        BY <2>2, <4>1 DEF Activate
    <3>4. /\ Len(Append(ts, m)) = Len(ts) + 1 /\ Len(ts) \in Nat /\ Append(ts, m)[Len(ts) + 1] = m
          /\ \A n \in 1..Len(ts) : Append(ts, m)[n] = ts[n] /\ ts[n] \in ClientSays
      BY <1>1, Appended
    <3>5. s.index = 1 => \A n \in 1..Len(ts) + 1 : Append(ts, m)[n].type \in {"pending", "init", "abort"}
      <4>1. s.index = 1 => Len(ts) = 0
        BY <1>1, <2>4 DEF Sent
      <4> QED
        BY <1>3, <3>4, <4>1
    <3>6. ASSUME NEW n \in 1..Len(ts) + 1, Append(ts, m)[n].type = "init", Append(ts, m)[n].index = s.index
          PROVE  /\ n = Len(ts) + 1 /\ after.state \in {"serverInit", "auth"}
                 /\ Append(ts, m)[n].commit <=> s.method = "dynamic"
      <4>1. n = Len(ts) + 1
        <5>1. ASSUME n \in 1..Len(ts) PROVE FALSE
          <6>1. ts[n] \in ClientSays /\ ts[n].type = "init" /\ ts[n].index = s.index /\ ts[n].index <= heard
            BY <1>1, <3>4, <3>6, <5>1 DEF Sent
          <6> QED
            BY <1>1, <2>1, <2>4, <6>1
        <5> QED
          BY <3>4, <5>1
      <4>2. Opened(after) /\ m = PairInit(heard + 1, method)
        BY <3>4, <3>6, <4>1 DEF PairPending
      <4>3. after.state \in {"serverInit", "auth"} /\ m.commit = (method = "dynamic")
        BY <4>2 DEF Opened, PairInit
      <4> QED
        BY <3>3, <3>4, <4>1, <4>3
    <3>7. Waiting(s, after, heard + 1, Append(ts, m), Tail(tc))
      BY <2>2, <3>2, <3>3, <3>4, <3>5, <3>6 DEF Waiting
    <3> QED
      BY <1>7, <3>7 DEF Peers, ServerInv, Serving
  <2> QED
    BY <2>3, <2>4
<1> QED
  BY <1>5, <1>6, <1>7

\* The client's attempt ends at its own word, and the abort comes last.
LEMMA ClientEnds ==
    ASSUME NEW s, NEW index, NEW a, NEW heard, NEW ts, NEW tc, Peers(s, index, a, heard, ts, tc),
           a.state \notin {"none", "done"}, NEW after, after.state = "done", NEW why \in Reasons
    PROVE  ServerInv(s, index, after, heard, Append(ts, PairAbort(why)), tc)
<1> DEFINE m == PairAbort(why)
<1>1. /\ heard \in Nat /\ heard > 0 /\ ts \in Seq(ClientSays) /\ tc \in Seq(ServerSays) /\ Sent(ts, heard)
      /\ m \in ClientSays /\ m.type = "abort"
  BY ClientMessage DEF Peers, Current, PairAbort
<1>2. Sent(Append(ts, m), heard) /\ Append(ts, m) \in Seq(ClientSays)
  BY <1>1, SentMore
<1>3. CASE s.state # "init" /\ ~Serving(s)
  BY <1>3, NotServing DEF Peers
<1>4. CASE s.state = "init"
  <2>1. /\ s.index = index /\ s.index \in Nat /\ heard <= s.index /\ s.method \in Methods
        /\ Waiting(s, a, heard, ts, tc)
    BY <1>4, UpToDate
  <2>2. CASE heard # s.index
    <3>1. Waiting(s, after, heard, Append(ts, m), tc)
      BY <1>1, <1>2, <2>1, <2>2, Distant DEF Waiting
    <3> QED
      BY <1>4, <3>1 DEF Peers, ServerInv, Serving
  <2>3. CASE heard = s.index
    <3>1. /\ Len(Append(ts, m)) = Len(ts) + 1 /\ Len(ts) \in Nat /\ Append(ts, m)[Len(ts) + 1] = m
          /\ \A n \in 1..Len(ts) : Append(ts, m)[n] = ts[n] /\ ts[n] \in ClientSays
      BY <1>1, Appended
    <3>2. s.index = 1 => \A n \in 1..Len(ts) + 1 : Append(ts, m)[n].type \in {"pending", "init", "abort"}
      BY <1>1, <2>1, <3>1 DEF Waiting
    <3>3. ASSUME NEW n \in 1..Len(ts) + 1, Append(ts, m)[n].type = "init", Append(ts, m)[n].index = s.index
          PROVE  /\ n = Len(ts)
                 /\ Append(ts, m)[n].commit <=> s.method = "dynamic"
      <4>1. n \in 1..Len(ts) /\ ts[n].type = "init" /\ ts[n].index = s.index
        BY <1>1, <3>1, <3>3
      <4> QED
        BY <1>1, <2>1, <3>1, <4>1 DEF Waiting
    <3>4. Waiting(s, after, heard, Append(ts, m), tc)
      BY <1>1, <2>1, <3>1, <3>2, <3>3 DEF Waiting
    <3> QED
      BY <1>4, <3>4 DEF Peers, ServerInv, Serving
  <2> QED
    BY <2>2, <2>3
<1>5. CASE Serving(s)
  <2>1. Talking(s, a, heard, ts, tc) /\ Together(s, a, ts, tc)
    BY <1>5, UpToDate DEF Talking, Gone
  <2>2. Gone(s, after, Append(ts, m), tc)
    <3>1. CASE s.state = "code"
      BY <2>1, <3>1 DEF Together, Gone, Begins, ServerInit
    <3>2. CASE s.state = "clientAuth" /\ ts = <<>>
      <4>1. tc = <<Begins(s), EntryOf("auth", s.entry)>> \/ tc = <<EntryOf("auth", s.entry)>>
        BY <2>1, <3>2 DEF Together
      <4>2. Begins(s).type = "init" /\ EntryOf("auth", s.entry).type = "auth"
        BY DEF Begins, ServerInit, EntryOf
      <4>3. \A n \in 1..Len(tc) : tc[n].type \in {"init", "auth", "confirm"}
        BY <4>1, <4>2
      <4> QED
        BY <3>2, <4>3, Written DEF Gone
    <3>3. CASE s.state = "clientAuth" /\ ts # <<>>
      <4>1. ts = <<PairAuth(ItsSid(s))>> /\ tc = <<>>
        BY <2>1, <3>3 DEF Together
      <4>2. Append(ts, m) = <<PairAuth(ItsSid(s)), m>>
        BY <4>1, Written
      <4> QED
        BY <3>3, <4>1, <4>2 DEF Gone
    <3>4. CASE s.state = "confirm" /\ ts = <<>>
      <4>1. tc = <<EntryOf("confirm", s.entry)>> /\ EntryOf("confirm", s.entry).type = "confirm"
        BY <2>1, <3>4 DEF Together, Proof, EntryOf
      <4>2. \A n \in 1..Len(tc) : tc[n].type \in {"init", "auth", "confirm"}
        BY <4>1
      <4> QED
        BY <3>4, <4>2, Written DEF Gone
    <3>5. CASE s.state = "confirm" /\ ts # <<>>
      <4>1. /\ tc = <<>>
            /\ \/ ts = Proof(s)
               \/ ts = <<PairRetry>> /\ s.method = "dynamic" /\ Dialect = "specification"
        BY <2>1, <3>5 DEF Together
      <4>2. ts = <<PairRetry>> => Append(ts, m) = <<PairRetry, m>>
        BY Written
      <4> QED
        BY <3>5, <4>1, <4>2 DEF Gone
    <3>6. CASE s.state = "finalize"
      <4>1. ts = <<PairFinalize(s.index, ItsSid(s))>> /\ tc = <<>>
        BY <2>1, <3>6 DEF Together
      <4>2. Append(ts, m) = <<PairFinalize(s.index, ItsSid(s)), m>>
        BY <4>1, Written
      <4> QED
        BY <3>6, <4>1, <4>2 DEF Gone
    <3> QED
      BY <1>5, <3>1, <3>2, <3>3, <3>4, <3>5, <3>6 DEF Serving
  <2>3. Talking(s, after, heard, Append(ts, m), tc)
    BY <2>1, <2>2 DEF Talking
  <2> QED
    BY <1>5, <2>3 DEF Peers, ServerInv, Serving
<1> QED
  BY <1>3, <1>4, <1>5

\* An attempt held back begins.
LEMMA ClientResumes ==
    ASSUME NEW s, NEW index, NEW a, NEW heard, NEW ts, NEW tc, Peers(s, index, a, heard, ts, tc),
           a.state = "pending", NEW after, Opened(after), after.method = a.method
    PROVE  ServerInv(s, index, after, heard, Append(ts, PairInit(heard, a.method)), tc)
<1> DEFINE m == PairInit(heard, a.method)
<1>1. /\ heard \in Nat /\ heard > 0 /\ ts \in Seq(ClientSays) /\ tc \in Seq(ServerSays) /\ Sent(ts, heard)
      /\ m \in ClientSays /\ m.type = "init" /\ m.index = heard /\ (m.commit <=> a.method = "dynamic")
  BY ClientMessage DEF Peers, Current, PairInit
<1> HIDE DEF m
<1>2. Sent(Append(ts, m), heard) /\ Append(ts, m) \in Seq(ClientSays)
  BY <1>1, SentMore
<1>3. CASE s.state # "init" /\ ~Serving(s)
  BY <1>3, NotServing DEF Peers
<1>4. CASE Serving(s)
  <2>1. Talking(s, a, heard, ts, tc)
    BY <1>4, UpToDate
  <2> QED
    BY <1>4, <2>1 DEF Talking, Together, Gone
<1>5. CASE s.state = "init"
  <2>1. /\ s.index = index /\ s.index \in Nat /\ heard <= s.index /\ s.method \in Methods
        /\ Waiting(s, a, heard, ts, tc)
    BY <1>5, UpToDate
  <2>2. CASE heard # s.index
    <3>1. Waiting(s, after, heard, Append(ts, m), tc)
      BY <1>1, <1>2, <2>1, <2>2, Distant DEF Waiting
    <3> QED
      BY <1>5, <3>1 DEF Peers, ServerInv, Serving, m
  <2>3. CASE heard = s.index
    <3>1. /\ Len(Append(ts, m)) = Len(ts) + 1 /\ Len(ts) \in Nat /\ Append(ts, m)[Len(ts) + 1] = m
          /\ \A n \in 1..Len(ts) : Append(ts, m)[n] = ts[n] /\ ts[n] \in ClientSays
      BY <1>1, Appended
    <3>2. s.index = 1 => \A n \in 1..Len(ts) + 1 : Append(ts, m)[n].type \in {"pending", "init", "abort"}
      BY <1>1, <2>1, <3>1 DEF Waiting
    <3>3. after.method = s.method
      BY <2>1, <2>3 DEF Waiting
    <3>4. ASSUME NEW n \in 1..Len(ts) + 1, Append(ts, m)[n].type = "init", Append(ts, m)[n].index = s.index
          PROVE  /\ n = Len(ts) + 1 /\ after.state \in {"serverInit", "auth"}
                 /\ Append(ts, m)[n].commit <=> s.method = "dynamic"
      <4>1. n = Len(ts) + 1
        BY <2>1, <3>1, <3>4 DEF Waiting
      <4> QED
        BY <1>1, <3>1, <3>3, <4>1 DEF Opened
    <3>5. Waiting(s, after, heard, Append(ts, m), tc)
      BY <1>1, <2>1, <2>3, <3>1, <3>2, <3>3, <3>4 DEF Waiting
    <3> QED
      BY <1>5, <3>5 DEF Peers, ServerInv, Serving, m
  <2> QED
    BY <2>2, <2>3
<1> QED
  BY <1>3, <1>4, <1>5

\* The client hears what leaves it no attempt, or hears it without one.
LEMMA ClientLeaves ==
    ASSUME NEW s, NEW index, NEW a, NEW heard, NEW ts, NEW tc, Peers(s, index, a, heard, ts, tc),
           tc # <<>>, tc[1] = Activate("none") \/ a.state = "none", NEW after
    PROVE  ServerInv(s, index, after, heard, ts, Tail(tc))
<1>1. heard \in Nat /\ ts \in Seq(ClientSays) /\ tc \in Seq(ServerSays) /\ Sent(ts, heard) /\ Len(tc) \in Nat \ {0}
  BY DEF Peers
<1>2. CASE s.state # "init" /\ ~Serving(s)
  BY <1>2, NotServing DEF Peers
<1>3. CASE Serving(s)
  <2>1. Talking(s, a, heard, ts, tc)
    BY <1>3, UpToDate
  <2>2. tc[1].type # "activate"
    <3>1. CASE Gone(s, a, ts, tc)
      BY <1>1, <3>1 DEF Gone, Begins, ServerInit
    <3>2. CASE Together(s, a, ts, tc)
      BY <3>2 DEF Together, Begins, ServerInit, EntryOf
    <3> QED
      BY <2>1, <3>1, <3>2 DEF Talking
  <2>3. a.state # "none"
    BY <2>1 DEF Talking, Together, Gone
  <2> QED
    BY <2>2, <2>3 DEF Activate
<1>4. CASE s.state = "init"
  <2>1. /\ s.index = index /\ s.index \in Nat /\ heard < s.index /\ Waiting(s, a, heard, ts, tc)
    BY <1>1, <1>4, UpToDate
  <2>2. Waiting(s, after, heard, ts, Tail(tc))
    BY <1>1, <2>1, Distant, LastOfTail DEF Waiting
  <2> QED
    BY <1>4, <2>2 DEF Peers, ServerInv, Serving
<1> QED
  BY <1>2, <1>3, <1>4

\* The client hears a message of its attempt.
LEMMA ClientHears ==
    ASSUME NEW s, NEW index, NEW a, NEW heard, NEW ts, NEW tc, Peers(s, index, a, heard, ts, tc),
           tc # <<>>, tc[1].type \notin {"activate", "rehandshake", "finalize"}, heard > 0, a.state # "none",
           NEW after, NEW out, Outcome(a, tc[1], after, out), ts \o out \in Seq(ClientSays), Sent(ts \o out, heard)
    PROVE  ServerInv(s, index, after, heard, ts \o out, Tail(tc))
<1>1. /\ heard \in Nat /\ ts \in Seq(ClientSays) /\ tc \in Seq(ServerSays) /\ Sent(ts, heard)
      /\ Len(tc) \in Nat \ {0} /\ a \in AttemptRecords
  BY DEF Peers
<1>2. CASE s.state # "init" /\ ~Serving(s)
  BY <1>2, NotServing DEF Peers
<1>3. CASE s.state = "init"
  <2>1. /\ s.index = index /\ s.index \in Nat /\ heard < s.index /\ Waiting(s, a, heard, ts, tc)
    BY <1>1, <1>3, UpToDate
  <2>2. s.round = 0 /\ (Tail(tc) = <<>> \/ Tail(tc)[Len(Tail(tc))] = Activate(s.method))
    BY <1>1, <2>1, LastOfTail DEF Waiting
  <2>3. Waiting(s, after, heard, ts \o out, Tail(tc))
    BY <1>1, <2>1, <2>2, Distant
  <2> QED
    BY <1>3, <2>3 DEF Peers, ServerInv, Serving
<1>4. CASE Serving(s)
  <2>1. /\ Talking(s, a, heard, ts, tc) /\ heard = s.index
    BY <1>4, UpToDate
  <2>2. CASE Gone(s, a, ts, tc)
    <3>1. after.state = "done" /\ out = <<>>
      BY <2>2 DEF Gone, Outcome
    <3>2. ts \o out = ts
      BY <1>1, <3>1, ConcatEmptySeq
    <3>3. s.state = "code" => Tail(tc) = <<>>
      BY <2>2 DEF Gone
    <3>4. \A n \in 1..Len(Tail(tc)) : n + 1 \in 1..Len(tc) /\ Tail(tc)[n] = tc[n + 1]
      BY <1>1, Shifted
    <3>5. Gone(s, after, ts, Tail(tc))
      BY <2>2, <3>1, <3>3, <3>4 DEF Gone
    <3>6. Talking(s, after, heard, ts \o out, Tail(tc))
      BY <2>1, <3>2, <3>5 DEF Talking
    <3> QED
      BY <1>4, <3>6 DEF Peers, ServerInv, Serving
  <2>3. CASE Together(s, a, ts, tc) /\ a.method = s.method
    <3>1. Sid(a) = <<s.index, a.round>> /\ Sid(a) = <<a.index, a.round>> /\ a.index = heard
      <4>1. a.state \notin {"none", "done"}
        BY <2>3 DEF Together
      <4> QED
        BY <2>1, <4>1 DEF Peers, Current, Sid
    <3>2. CASE s.state = "code"
      <4>1. ts = <<>> /\ tc = <<Begins(s)>> /\ a.state = "serverInit" /\ tc[1].type = "init"
        BY <1>1, <2>3, <3>2 DEF Together, Begins, ServerInit
      <4>2. after.state = "auth" /\ after.round = a.round /\ after.method = a.method /\ out = <<>>
        BY <4>1 DEF Outcome
      <4>3. ts \o out = <<>> /\ Tail(tc) = <<>>
        BY <4>1, <4>2
      <4>4. Together(s, after, <<>>, <<>>)
        BY <2>3, <3>2, <4>2 DEF Together
      <4>5. Talking(s, after, heard, ts \o out, Tail(tc))
        BY <2>1, <2>3, <4>2, <4>3, <4>4 DEF Talking
      <4> QED
        BY <1>4, <4>5 DEF Peers, ServerInv, Serving
    <3>3. CASE s.state = "clientAuth" /\ a.state = "serverInit"
      <4>1. ts = <<>> /\ tc = <<Begins(s), EntryOf("auth", s.entry)>> /\ tc[1].type = "init" /\ a.round = s.round
        BY <1>1, <2>3, <3>3 DEF Together, Begins, ServerInit
      <4>2. after.state = "auth" /\ after.round = a.round /\ after.method = a.method /\ out = <<>>
        BY <3>3, <4>1 DEF Outcome
      <4>3. ts \o out = <<>> /\ Tail(tc) = <<EntryOf("auth", s.entry)>>
        BY <4>1, <4>2
      <4>4. Together(s, after, <<>>, <<EntryOf("auth", s.entry)>>)
        BY <3>3, <4>1, <4>2 DEF Together
      <4>5. Talking(s, after, heard, ts \o out, Tail(tc))
        BY <2>1, <2>3, <4>2, <4>3, <4>4 DEF Talking
      <4> QED
        BY <1>4, <4>5 DEF Peers, ServerInv, Serving
    <3>4. CASE s.state = "clientAuth" /\ a.state # "serverInit"
      <4>1. /\ ts = <<>> /\ tc = <<EntryOf("auth", s.entry)>> /\ a.state = "auth" /\ tc[1].type = "auth"
            /\ a.round = s.round
        BY <1>1, <2>3, <3>4 DEF Together, EntryOf
      <4>2. /\ after.state = "confirm" /\ after.round = a.round /\ after.method = a.method
            /\ out = <<PairAuth(ItsSid(s))>>
        BY <3>1, <4>1 DEF Outcome, ItsSid
      <4>3. ts \o out = <<PairAuth(ItsSid(s))>> /\ Tail(tc) = <<>>
        BY <4>1, <4>2
      <4>4. Together(s, after, <<PairAuth(ItsSid(s))>>, <<>>)
        BY <3>4, <4>1, <4>2 DEF Together
      <4>5. Talking(s, after, heard, ts \o out, Tail(tc))
        BY <2>1, <2>3, <4>2, <4>3, <4>4 DEF Talking
      <4> QED
        BY <1>4, <4>5 DEF Peers, ServerInv, Serving
    <3>5. CASE s.state = "confirm"
      <4>1. /\ ts = <<>> /\ tc = <<EntryOf("confirm", s.entry)>> /\ a.state = "confirm" /\ tc[1].type = "confirm"
            /\ a.round = s.round
        BY <1>1, <2>3, <3>5 DEF Together, EntryOf
      <4>2. Tail(tc) = <<>> /\ ts \o out = out
        <5>1. Tail(tc) = <<>>
          BY <4>1
        <5>2. out = <<PairAbort("mismatch")>> \/ out = <<PairRetry>>
                \/ out = <<PairConfirm(Sid(a)), PairFinalize(a.index, Sid(a))>>
          BY <4>1 DEF Outcome
        <5>3. <<>> \o out = out
          BY <5>2
        <5> QED
          BY <4>1, <5>1, <5>3
      <4>3. CASE after.state = "done"
        <5>1. out = <<PairAbort("mismatch")>>
          BY <4>1, <4>3 DEF Outcome
        <5>2. Gone(s, after, out, <<>>)
          BY <3>5, <4>3, <5>1 DEF Gone, Reasons
        <5>3. Talking(s, after, heard, ts \o out, Tail(tc))
          BY <2>1, <4>2, <5>2 DEF Talking
        <5> QED
          BY <1>4, <5>3 DEF Peers, ServerInv, Serving
      <4>4. CASE after.state = "finalize"
        <5>1. out = Proof(s) /\ after.method = a.method
          BY <3>1, <4>1, <4>4, <2>1 DEF Outcome, Proof, ItsSid
        <5>2. Together(s, after, out, <<>>)
          BY <3>5, <4>4, <5>1 DEF Together
        <5>3. Talking(s, after, heard, ts \o out, Tail(tc))
          BY <2>1, <2>3, <4>2, <5>1, <5>2 DEF Talking
        <5> QED
          BY <1>4, <5>3 DEF Peers, ServerInv, Serving
      <4>5. CASE after.state \notin {"done", "finalize"}
        <5>1. /\ after.state = "serverInit" /\ after.round = a.round + 1 /\ after.method = a.method
              /\ a.method = "dynamic" /\ Dialect = "specification" /\ out = <<PairRetry>>
          BY <4>1, <4>5 DEF Outcome
        <5>2. Together(s, after, out, <<>>)
          BY <2>3, <3>5, <4>1, <5>1 DEF Together
        <5>3. Talking(s, after, heard, ts \o out, Tail(tc))
          BY <2>1, <2>3, <4>2, <5>1, <5>2 DEF Talking
        <5> QED
          BY <1>4, <5>3 DEF Peers, ServerInv, Serving
      <4> QED
        BY <4>3, <4>4, <4>5
    <3>6. CASE s.state = "finalize"
      BY <2>3, <3>6 DEF Together
    <3> QED
      BY <1>4, <3>2, <3>3, <3>4, <3>5, <3>6 DEF Serving
  <2> QED
    BY <2>1, <2>2, <2>3 DEF Talking
<1> QED
  BY <1>2, <1>3, <1>4

----------------------------------------------------------------------------
(* The server's attempt, at the server's own steps.                        *)

LEMMA ServerType ==
    /\ NoServerAttempt \in ServerAttempts /\ NoServerAttempt.state = "none"
    /\ \A s : Ended(s) \in ServerAttempts /\ Ended(s).state = "done"
<1>1. NoServerAttempt \in ServerAttempts /\ NoServerAttempt.state = "none"
  BY DEF NoServerAttempt, NoEntry, NoSid, ServerAttempts, ServerStates
<1>2. ASSUME NEW s PROVE Ended(s) \in ServerAttempts /\ Ended(s).state = "done"
  BY <1>1 DEF Ended, ServerAttempts, ServerStates
<1> QED
  BY <1>1, <1>2

\* With no attempt of its own the server minds nothing.
LEMMA NoneInv ==
    ASSUME NEW s, s.state \in {"none", "done"}, NEW index, s.state = "none" \/ index > 0,
           NEW a, NEW heard, NEW ts, NEW tc
    PROVE  ServerInv(s, index, a, heard, ts, tc)
BY DEF ServerInv, Running, Serving

\* An activation supersedes the attempt there was.
LEMMA ActivateInv ==
    ASSUME NEW index \in Nat, NEW a, NEW heard \in Nat, heard <= index,
           NEW ts \in Seq(ClientSays), Sent(ts, heard), NEW tc \in Seq(ServerSays), NEW method \in Methods,
           NEW s, s = [NoServerAttempt EXCEPT !.state = "init", !.method = method, !.index = index + 1]
    PROVE  s \in ServerAttempts /\ ServerInv(s, index + 1, a, heard, ts, Append(tc, Activate(method)))
<1>1. /\ s.state = "init" /\ s.method = method /\ s.index = index + 1 /\ s.round = 0
      /\ s \in ServerAttempts
  <2>1. NoServerAttempt.round = 0
    BY DEF NoServerAttempt
  <2>2. "init" \in ServerStates /\ method \in Methods \cup {"psk"} /\ index + 1 \in Nat
    BY DEF ServerStates
  <2> QED
    BY <2>1, <2>2, ServerType DEF ServerAttempts
<1>2. Activate(method) \in ServerSays
  BY ServerMessage
<1>3. Append(tc, Activate(method))[Len(Append(tc, Activate(method)))] = Activate(s.method)
  BY <1>1, <1>2
<1>4. heard < s.index /\ s.index \in Nat
  BY <1>1
<1>5. Waiting(s, a, heard, ts, Append(tc, Activate(method)))
  BY <1>1, <1>3, <1>4, Distant
<1> QED
  BY <1>1, <1>4, <1>5 DEF ServerInv, Running, Serving

\* A code is entered, whether or not the client is still there.
LEMMA EnterInv ==
    ASSUME NEW s, NEW index, NEW a, NEW heard, NEW ts, NEW tc, Peers(s, index, a, heard, ts, tc),
           s.state = "code", NEW code \in {"right", "wrong"},
           NEW e, e = [sid |-> <<s.index, s.round>>, code |-> code],
           NEW after, after = [s EXCEPT !.state = "clientAuth", !.entry = e]
    PROVE  /\ e \in Entry /\ after \in ServerAttempts
           /\ Chained(Append(tc, EntryOf("auth", e)), a, heard)
           /\ ServerInv(after, index, a, heard, ts, Append(tc, EntryOf("auth", e)))
<1> DEFINE m == EntryOf("auth", e)
<1>1. /\ s \in ServerAttempts /\ heard \in Nat /\ tc \in Seq(ServerSays) /\ Chained(tc, a, heard)
      /\ s.index \in Nat /\ s.round \in Nat
  BY DEF Peers, ServerAttempts
<1>2. e \in Entry /\ e.sid = <<s.index, s.round>>
  BY <1>1 DEF Entry
<1>3. /\ after.state = "clientAuth" /\ after.entry = e /\ after.index = s.index /\ after.round = s.round
      /\ after.method = s.method /\ after \in ServerAttempts
  BY <1>1, <1>2 DEF ServerAttempts, ServerStates, Entry
<1>4. m \in ServerSays /\ m.type = "auth"
  BY <1>2, ServerMessage DEF EntryOf
<1>5. Begins(s) = Begins(after) /\ Begins(s).type = "init" /\ ItsSid(s) = ItsSid(after)
  BY <1>3 DEF Begins, ServerInit, ItsSid
<1>6. /\ s.index = index /\ s.method \in Methods /\ heard = s.index /\ s.index > 0
      /\ Talking(s, a, heard, ts, tc)
  BY UpToDate DEF Serving
<1>7. CASE tc = <<>>
  <2>1. a.state \in {"auth", "done"} /\ Append(tc, m) = <<m>>
    BY <1>6, <1>7 DEF Talking, Together, Gone
  <2>2. Chained(Append(tc, m), a, heard)
    <3>1. Accepts(a, m) /\ heard # 0
      BY <1>4, <1>6, <2>1 DEF Accepts
    <3> QED
      BY <1>1, <1>4, <1>7, <3>1, ChainSent
  <2>3. Together(s, a, ts, tc) => Together(after, a, ts, <<m>>)
    BY <1>3, <1>7 DEF Together
  <2>4. Gone(s, a, ts, tc) => Gone(after, a, ts, <<m>>)
    BY <1>3, <1>4 DEF Gone
  <2>5. Talking(after, a, heard, ts, <<m>>)
    BY <1>2, <1>3, <1>6, <2>3, <2>4 DEF Talking, ItsSid
  <2> HIDE DEF m
  <2>6. ServerInv(after, index, a, heard, ts, Append(tc, m))
    BY <1>3, <1>6, <2>1, <2>5 DEF ServerInv, Running, Serving
  <2> QED
    BY <1>2, <1>3, <2>2, <2>6 DEF m
<1>8. CASE tc # <<>>
  <2>1. tc = <<Begins(s)>> /\ a.state \in {"serverInit", "done"}
    BY <1>3, <1>6, <1>8 DEF Talking, Together, Gone
  <2>2. Append(tc, m) = <<Begins(s), m>> /\ tc[Len(tc)] = Begins(s)
    <3>1. Len(tc) = 1 /\ tc[1] = Begins(s)
      BY <2>1
    <3> QED
      BY <2>1, <3>1, Written
  <2>3. Chained(Append(tc, m), a, heard)
    BY <1>1, <1>4, <1>5, <1>8, <2>2, ChainSent DEF Follows
  <2>4. Together(s, a, ts, tc) => Together(after, a, ts, <<Begins(s), m>>)
    BY <1>3, <1>5, <2>1, <1>8 DEF Together
  <2>5. Gone(s, a, ts, tc) => Gone(after, a, ts, <<Begins(s), m>>)
    <3>1. \A n \in 1..Len(<<Begins(s), m>>) : <<Begins(s), m>>[n].type \in {"init", "auth", "confirm"}
      BY <1>4, <1>5
    <3> QED
      BY <1>3, <1>8, <3>1 DEF Gone
  <2>6. Talking(after, a, heard, ts, <<Begins(s), m>>)
    BY <1>2, <1>3, <1>6, <2>4, <2>5 DEF Talking, ItsSid
  <2> HIDE DEF m
  <2>7. ServerInv(after, index, a, heard, ts, Append(tc, m))
    BY <1>3, <1>6, <2>2, <2>6 DEF ServerInv, Running, Serving
  <2> QED
    BY <1>2, <1>3, <2>3, <2>7 DEF m
<1> QED
  BY <1>7, <1>8

\* What the server's handler leaves, unless the client has proved itself.
Replies(r, s, index, a, heard, ts, tc) ==
    /\ r.after \in {"continue", "ended"} /\ r.server \in ServerAttempts
    /\ ServerInv(r.server, index, a, heard, Tail(ts), tc \o r.out)
    /\ r.out # <<>> =>
          \E m \in ServerSays : /\ r.out = <<m>> /\ m.type \in {"init", "confirm", "abort"}
                                /\ Always(m) \/ (tc = <<>> /\ Accepts(a, m))
                                /\ m.type = "confirm" => m.entry = s.entry /\ s.state = "clientAuth"
    /\ r.server.state \in {"clientAuth", "confirm", "finalize"} =>
          /\ r.server.entry = s.entry /\ r.server.index = s.index
          /\ s.state \in {"clientAuth", "confirm", "finalize"}
    /\ r.server.state = "finalize" => s.state = "finalize" \/ s.entry.code = "right"

\* It keeps what the client has sent it, and the client has nothing to wait for.
Proves(r, s, heard, a, tc) ==
    /\ s.state = "finalize" /\ r.after = "paired" /\ r.psk = s.index /\ r.server = NoServerAttempt
    /\ heard = s.index /\ s.index > 0 /\ s.entry.sid = ItsSid(s) /\ tc = <<>> /\ a.state \in {"finalize", "done"}

LEMMA IgnoresReplies ==
    ASSUME NEW s \in ServerAttempts, NEW index, NEW a, NEW heard, NEW ts, NEW tc \in Seq(ServerSays),
           ServerInv(s, index, a, heard, Tail(ts), tc)
    PROVE  Replies(Ignores(s), s, index, a, heard, ts, tc)
<1>1. tc \o <<>> = tc
  BY ConcatEmptySeq
<1> QED
  BY <1>1 DEF Replies, Ignores, Reply

\* The attempt ends, with an abort or at one.
LEMMA EndedReplies ==
    ASSUME NEW s \in ServerAttempts, NEW index \in Nat, index > 0, NEW a, NEW heard, NEW ts, NEW tc \in Seq(ServerSays),
           NEW out, out \in {<<>>, <<PairAbort("mismatch")>>}
    PROVE  Replies(Reply("ended", Ended(s), out), s, index, a, heard, ts, tc)
<1> DEFINE r == Reply("ended", Ended(s), out)
<1>1. r.after = "ended" /\ r.server = Ended(s) /\ r.out = out
  BY DEF Reply
<1>2. PairAbort("mismatch") \in ServerSays /\ PairAbort("mismatch").type = "abort"
  BY ServerMessage DEF Reasons, PairAbort
<1>3. Ended(s) \in ServerAttempts /\ Ended(s).state = "done"
  BY ServerType
<1>4. ServerInv(Ended(s), index, a, heard, Tail(ts), tc \o out)
  BY <1>3 DEF ServerInv, Running, Serving
<1> HIDE DEF r
<1>5. out # <<>> => out = <<PairAbort("mismatch")>> /\ Always(PairAbort("mismatch"))
  BY <1>2 DEF Always
<1>6. Replies(r, s, index, a, heard, ts, tc)
  BY <1>1, <1>2, <1>3, <1>4, <1>5 DEF Replies
<1> QED
  BY <1>6 DEF r

LEMMA WaitingRead ==
    ASSUME NEW s, NEW a, NEW heard, NEW ts \in Seq(ClientSays), ts # <<>>, NEW tc, Waiting(s, a, heard, ts, tc)
    PROVE  Waiting(s, a, heard, Tail(ts), tc)
<1>1. /\ Len(Tail(ts)) = Len(ts) - 1 /\ Len(ts) \in Nat \ {0}
      /\ \A n \in 1..Len(Tail(ts)) : n + 1 \in 1..Len(ts) /\ Tail(ts)[n] = ts[n + 1]
  BY Shifted
<1>2. s.index = 1 => \A n \in 1..Len(Tail(ts)) : Tail(ts)[n].type \in {"pending", "init", "abort"}
  BY <1>1 DEF Waiting
<1>3. ASSUME NEW n \in 1..Len(Tail(ts)), Tail(ts)[n].type = "init", Tail(ts)[n].index = s.index
      PROVE  /\ Tail(ts)[n].commit <=> s.method = "dynamic"
             /\ \/ n = Len(Tail(ts)) /\ a.state \in {"serverInit", "auth"}
                \/ n = Len(Tail(ts)) - 1 /\ Tail(ts)[Len(Tail(ts))].type = "abort" /\ a.state = "done"
  <2>1. /\ n + 1 \in 1..Len(ts) /\ Tail(ts)[n] = ts[n + 1]
        /\ Tail(ts)[Len(Tail(ts))] = ts[Len(ts)]
    BY <1>1
  <2>2. /\ ts[n + 1].commit <=> s.method = "dynamic"
        /\ \/ n + 1 = Len(ts) /\ a.state \in {"serverInit", "auth"}
           \/ n + 1 = Len(ts) - 1 /\ ts[Len(ts)].type = "abort" /\ a.state = "done"
    BY <1>3, <2>1 DEF Waiting
  <2>3. /\ n + 1 = Len(ts) => n = Len(Tail(ts))
        /\ n + 1 = Len(ts) - 1 => n = Len(Tail(ts)) - 1
    <3>1. ASSUME NEW i \in Nat, NEW k \in Nat, NEW j, j = k - 1
          PROVE  (i + 1 = k => i = j) /\ (i + 1 = k - 1 => i = j - 1)
      BY <3>1
    <3>2. Len(Tail(ts)) = Len(ts) - 1 /\ Len(ts) \in Nat
      BY <1>1
    <3>3. Len(Tail(ts)) \in Nat
      BY <3>2, <1>1
    <3>4. n \in Nat
      BY <3>3
    <3> QED
      BY <3>1, <3>2, <3>4
  <2> QED
    BY <2>1, <2>2, <2>3
<1> QED
  BY <1>2, <1>3 DEF Waiting

\* A dynamic round begins.
LEMMA NextType ==
    ASSUME NEW s \in ServerAttempts,
           NEW after, after = [s EXCEPT !.state = "code", !.round = @ + 1, !.entry = NoEntry, !.heard = NoSid]
    PROVE  /\ after \in ServerAttempts /\ after.state = "code" /\ after.round = s.round + 1
           /\ after.index = s.index /\ after.method = s.method
<1>1. NoEntry \in [sid : Nat \X Nat, code : {"right", "wrong"}] /\ NoSid \in Nat \X Nat
  BY DEF NoEntry, NoSid
<1>2. s.round + 1 \in Nat
  BY DEF ServerAttempts
<1> QED
  BY <1>1, <1>2 DEF ServerAttempts, ServerStates

\* The client begins the attempt the server waits in.
LEMMA InitiatedReplies ==
    ASSUME NEW s, NEW index, NEW a, NEW heard, NEW ts, NEW tc, Peers(s, index, a, heard, ts, tc),
           s.state = "init", ts # <<>>, s.method # "psk",
           ts[1].type = "init", ts[1].index = s.index, heard = s.index
    PROVE  Replies(Initiated(s), s, index, a, heard, ts, tc)
<1>1. /\ s \in ServerAttempts /\ heard \in Nat /\ ts \in Seq(ClientSays) /\ tc \in Seq(ServerSays)
      /\ s.index \in Nat /\ s.round \in Nat
  BY DEF Peers, ServerAttempts
<1>2. /\ s.index = index /\ s.method \in Methods /\ Waiting(s, a, heard, ts, tc) /\ tc = <<>>
  BY UpToDate
<1>3. s.method \in {"dynamic", "static"}
  BY <1>2, PairingAssumption
<1>4. s.round = 0 /\ 1 \in 1..Len(ts) /\ Len(ts) \in Nat
  BY <1>1, <1>2 DEF Waiting
<1>5. \/ Len(ts) = 1 /\ a.state \in {"serverInit", "auth"}
      \/ Len(ts) = 2 /\ ts[2].type = "abort" /\ a.state = "done"
  <2>1. \/ 1 = Len(ts) /\ a.state \in {"serverInit", "auth"}
        \/ 1 = Len(ts) - 1 /\ ts[Len(ts)].type = "abort" /\ a.state = "done"
    BY <1>2, <1>4 DEF Waiting
  <2>2. 1 = Len(ts) - 1 => Len(ts) = 2
    BY <1>4
  <2> QED
    BY <2>1, <2>2
<1>6. index > 0
  BY DEF Peers, ServerInv
<1>7. ASSUME NEW after \in ServerAttempts, after.state = "code", after.round = 1,
             after.index = s.index, after.method = s.method, NEW out,
             out = IF s.method = "dynamic" THEN <<ServerInit(TRUE)>> ELSE <<>>
      PROVE  ServerInv(after, index, a, heard, Tail(ts), out)
  <2>1. Begins(after) = ServerInit(TRUE)
    BY <1>7 DEF Begins
  <2>2. CASE Len(ts) = 1 /\ a.state \in {"serverInit", "auth"}
    <3>1. a.method = s.method /\ Opened(a)
      BY <1>2, <2>2 DEF Waiting, Opened
    <3>2. Tail(ts) = <<>>
      BY <1>1, <2>2, Short
    <3>3. Together(after, a, <<>>, out)
      BY <1>7, <2>1, <3>1 DEF Together, Opened
    <3>4. Talking(after, a, heard, <<>>, out)
      BY <1>7, <3>1, <3>3 DEF Talking
    <3> QED
      BY <1>2, <1>6, <1>7, <3>2, <3>4 DEF ServerInv, Running, Serving
  <2>3. CASE Len(ts) = 2 /\ ts[2].type = "abort" /\ a.state = "done"
    <3>1. ts[2] \in ClientSays
      BY <1>1, <2>3, Short
    <3>2. PICK why \in Reasons : ts[2] = PairAbort(why)
      BY <2>3, <3>1, ClientKinds
    <3>3. Tail(ts) = <<PairAbort(why)>>
      BY <1>1, <2>3, <3>2, Short
    <3>4. out \in {<<>>, <<Begins(after)>>} /\ \A n \in 1..Len(out) : out[n].type \in {"init", "auth", "confirm"}
      BY <1>7, <2>1 DEF ServerInit
    <3>5. Gone(after, a, Tail(ts), out)
      BY <1>7, <2>3, <3>3, <3>4 DEF Gone
    <3> QED
      BY <1>2, <1>6, <1>7, <3>5 DEF ServerInv, Running, Serving, Talking
  <2> QED
    BY <1>5, <2>2, <2>3
<1>8. CASE s.method = "dynamic"
  <2> DEFINE after == [s EXCEPT !.state = "code", !.round = @ + 1, !.entry = NoEntry, !.heard = NoSid]
             m     == ServerInit(TRUE)
  <2>1. /\ after \in ServerAttempts /\ after.state = "code" /\ after.round = 1
        /\ after.index = s.index /\ after.method = s.method
    <3>1. s.round + 1 = 1
      BY <1>4
    <3> QED
      BY <1>1, <3>1, NextType
  <2>2. Initiated(s) = Reply("continue", after, <<m>>)
    BY <1>8 DEF Initiated, NextRound
  <2> HIDE DEF after
  <2>3. ServerInv(after, index, a, heard, Tail(ts), <<m>>)
    BY <1>7, <1>8, <2>1
  <2>4. m \in ServerSays /\ m.type = "init" /\ m.nonce = TRUE
    BY ServerMessage DEF ServerInit
  <2>5. Accepts(a, m)
    BY <1>2, <1>5, <1>8, <2>4 DEF Accepts, Waiting, Opened
  <2> HIDE DEF m
  <2>6. tc \o <<m>> = <<m>>
    BY <1>2, <2>4
  <2> QED
    BY <1>2, <2>1, <2>2, <2>3, <2>4, <2>5, <2>6 DEF Replies, Reply
<1>9. CASE s.method = "static"
  <2> DEFINE after == [s EXCEPT !.state = "code", !.round = 1]
  <2>1. /\ after \in ServerAttempts /\ after.state = "code" /\ after.round = 1
        /\ after.index = s.index /\ after.method = s.method
    BY <1>1, <1>4 DEF ServerAttempts, ServerStates
  <2>2. Initiated(s) = Reply("continue", after, <<>>)
    BY <1>9 DEF Initiated
  <2> HIDE DEF after
  <2>3. ServerInv(after, index, a, heard, Tail(ts), <<>>)
    BY <1>7, <1>9, <2>1
  <2>4. tc \o <<>> = <<>>
    BY <1>2
  <2> QED
    BY <2>1, <2>2, <2>3, <2>4 DEF Replies, Reply
<1> QED
  BY <1>3, <1>8, <1>9

\* While it waits, the server ignores what the attempts before have left.
LEMMA WaitingReplies ==
    ASSUME NEW s, NEW index, NEW a, NEW heard, NEW ts, NEW tc, Peers(s, index, a, heard, ts, tc),
           s.state = "init", ts # <<>>, s.method # "psk"
    PROVE  Replies(ServerReceive(s, ts[1], index), s, index, a, heard, ts, tc)
<1> DEFINE r == ServerReceive(s, ts[1], index)
<1>1. /\ s \in ServerAttempts /\ heard \in Nat /\ ts \in Seq(ClientSays) /\ tc \in Seq(ServerSays)
      /\ Sent(ts, heard) /\ ts[1] \in ClientSays /\ 1 \in 1..Len(ts) /\ index \in Nat /\ index > 0
  BY Shifted DEF Peers, ServerInv
<1>2. /\ s.index = index /\ s.index \in Nat /\ heard <= s.index /\ s.method \in Methods
      /\ Waiting(s, a, heard, ts, tc)
  BY UpToDate
<1>3. ServerInv(s, index, a, heard, Tail(ts), tc)
  BY <1>1, <1>2, WaitingRead DEF ServerInv, Running, Serving
<1>4. Replies(Ignores(s), s, index, a, heard, ts, tc)
  BY <1>1, <1>3, IgnoresReplies
<1>5. ts[1].type \in {"pending", "init"} => ts[1].index \in Nat /\ ts[1].index <= s.index
  BY <1>1, <1>2, ClientKinds DEF Sent
<1>6. CASE ts[1].type = "abort"
  <2>1. ts[1].reason # "concurrent"
    BY <1>1, <1>6, ClientKinds DEF Reasons
  <2>2. r = Reply("ended", Ended(s), <<>>)
    BY <1>6, <2>1 DEF ServerReceive
  <2> QED
    BY <1>1, <2>2, EndedReplies
<1>7. CASE ts[1].type = "pending"
  <2>1. ~(ts[1].index > s.index)
    BY <1>2, <1>5, <1>7
  <2>2. r = Ignores(s)
    BY <1>7, <2>1 DEF ServerReceive
  <2> QED
    BY <1>4, <2>2
<1>8. CASE ts[1].type \notin {"abort", "pending", "init"}
  <2>1. s.index # 1
    BY <1>1, <1>2, <1>8 DEF Waiting
  <2>2. s.index > 1
    BY <1>1, <1>2, <2>1
  <2>3. r = Ignores(s)
    BY <1>8, <2>2 DEF ServerReceive, InInit
  <2> QED
    BY <1>4, <2>3
<1>9. CASE ts[1].type = "init" /\ ts[1].index # s.index
  <2>1. ts[1].index < s.index /\ ~(ts[1].index > s.index)
    BY <1>2, <1>5, <1>9
  <2>2. r = Ignores(s)
    BY <1>9, <2>1 DEF ServerReceive, InInit
  <2> QED
    BY <1>4, <2>2
<1>10. CASE ts[1].type = "init" /\ ts[1].index = s.index
  <2>1. heard = s.index
    BY <1>1, <1>2, <1>10 DEF Sent
  <2>2. ts[1].commit <=> s.method = "dynamic"
    BY <1>1, <1>2, <1>10 DEF Waiting
  <2>3. ts[1].commit \in BOOLEAN
    BY <1>1, <1>10, ClientKinds
  <2>4. ts[1].commit = (s.method = "dynamic")
    BY <2>2, <2>3
  <2>5. ~(ts[1].index > s.index) /\ ~(ts[1].index < s.index)
    BY <1>2, <1>10
  <2>6. r = Initiated(s)
    BY <1>10, <2>4, <2>5 DEF ServerReceive, InInit
  <2> QED
    BY <1>10, <2>1, <2>6, InitiatedReplies
<1> QED
  BY <1>6, <1>7, <1>8, <1>9, <1>10

\* In the exchange, each message is the one the server waits for, or an abort.
LEMMA TalkingReplies ==
    ASSUME NEW s, NEW index, NEW a, NEW heard, NEW ts, NEW tc, Peers(s, index, a, heard, ts, tc),
           Serving(s), ts # <<>>, NEW r, r = ServerReceive(s, ts[1], index)
    PROVE  Replies(r, s, index, a, heard, ts, tc) \/ Proves(r, s, heard, a, tc)
<1>1. /\ s \in ServerAttempts /\ heard \in Nat /\ ts \in Seq(ClientSays) /\ tc \in Seq(ServerSays)
      /\ index \in Nat /\ index > 0 /\ s.entry \in Entry /\ s.round \in Nat
  BY DEF Peers, ServerInv, Serving, ServerAttempts, Entry
<1>2. /\ s.index = index /\ s.index \in Nat /\ s.method \in Methods /\ heard = s.index
      /\ Talking(s, a, heard, ts, tc)
  BY UpToDate
<1>3. CASE \E why \in Reasons : ts[1] = PairAbort(why)
  <2>1. ts[1].type = "abort" /\ ts[1].reason # "concurrent"
    BY <1>3 DEF PairAbort, Reasons
  <2>2. r = Reply("ended", Ended(s), <<>>)
    BY <2>1 DEF ServerReceive, Serving
  <2> QED
    BY <1>1, <2>2, EndedReplies
<1>4. CASE /\ s.state = "clientAuth" /\ tc = <<>> /\ ts[1] = PairAuth(ItsSid(s))
           /\ \/ a.state = "confirm" /\ a.method = s.method /\ a.round = s.round /\ Tail(ts) = <<>>
              \/ a.state = "done" /\ \E why \in Reasons : Tail(ts) = <<PairAbort(why)>>
  <2> DEFINE after == [s EXCEPT !.state = "confirm", !.heard = ItsSid(s)]
             m     == EntryOf("confirm", s.entry)
  <2>1. /\ after \in ServerAttempts /\ after.state = "confirm" /\ after.round = s.round /\ after.entry = s.entry
        /\ after.index = s.index /\ after.method = s.method /\ ItsSid(after) = ItsSid(s)
    BY <1>1, <1>2 DEF ServerAttempts, ServerStates, ItsSid
  <2>2. r = Reply("continue", after, <<m>>)
    BY <1>4 DEF ServerReceive, InClientAuth, PairAuth
  <2>3. m \in ServerSays /\ m.type = "confirm" /\ m.entry = s.entry
    BY <1>1, ServerMessage DEF EntryOf
  <2>4. m = EntryOf("confirm", after.entry)
    BY <2>1
  <2> HIDE DEF after
  <2>5. Talking(after, a, heard, Tail(ts), <<m>>)
    <3>1. CASE a.state = "confirm" /\ a.method = s.method /\ a.round = s.round /\ Tail(ts) = <<>>
      <4>1. Together(after, a, Tail(ts), <<m>>)
        BY <2>1, <2>4, <3>1 DEF Together
      <4> QED
        BY <1>2, <1>4, <2>1, <3>1, <4>1 DEF Talking
    <3>2. CASE a.state = "done" /\ \E why \in Reasons : Tail(ts) = <<PairAbort(why)>>
      <4>1. \A n \in 1..Len(<<m>>) : <<m>>[n].type \in {"init", "auth", "confirm"}
        BY <2>3
      <4>2. Gone(after, a, Tail(ts), <<m>>)
        BY <2>1, <3>2, <4>1 DEF Gone
      <4> QED
        BY <1>2, <1>4, <2>1, <4>2 DEF Talking
    <3> QED
      BY <1>4, <3>1, <3>2
  <2>6. Accepts(a, m)
    BY <1>4, <2>3 DEF Accepts
  <2> HIDE DEF m
  <2>7. tc \o <<m>> = <<m>> /\ <<m>> # <<>>
    BY <1>4, <2>3
  <2>8. ServerInv(after, index, a, heard, Tail(ts), <<m>>)
    BY <1>1, <1>2, <2>1, <2>5 DEF ServerInv, Running, Serving
  <2> QED
    BY <1>4, <2>1, <2>2, <2>3, <2>6, <2>7, <2>8 DEF Replies, Reply
<1>5. CASE /\ s.state = "confirm" /\ tc = <<>> /\ ts[1] = PairConfirm(ItsSid(s))
           /\ \/ /\ a.state = "finalize" /\ a.method = s.method
                 /\ Tail(ts) = <<PairFinalize(s.index, ItsSid(s))>>
              \/ /\ a.state = "done"
                 /\ \E why \in Reasons : Tail(ts) = <<PairFinalize(s.index, ItsSid(s)), PairAbort(why)>>
  <2>1. CASE Matches(s, ItsSid(s))
    <3> DEFINE after == [s EXCEPT !.state = "finalize"]
    <3>1. /\ after \in ServerAttempts /\ after.state = "finalize" /\ after.round = s.round /\ after.entry = s.entry
          /\ after.index = s.index /\ after.method = s.method /\ ItsSid(after) = ItsSid(s)
      BY <1>1, <1>2 DEF ServerAttempts, ServerStates, ItsSid
    <3>2. r = Reply("continue", after, <<>>)
      BY <1>5, <2>1 DEF ServerReceive, InConfirm, PairConfirm
    <3> HIDE DEF after
    <3>3. s.entry.code = "right"
      BY <2>1 DEF Matches
    <3>4. Talking(after, a, heard, Tail(ts), <<>>)
      <4>1. CASE a.state = "finalize" /\ a.method = s.method /\ Tail(ts) = <<PairFinalize(s.index, ItsSid(s))>>
        <5>1. Together(after, a, Tail(ts), <<>>)
          BY <3>1, <4>1 DEF Together
        <5> QED
          BY <1>2, <1>5, <3>1, <4>1, <5>1 DEF Talking
      <4>2. CASE /\ a.state = "done"
                 /\ \E why \in Reasons : Tail(ts) = <<PairFinalize(s.index, ItsSid(s)), PairAbort(why)>>
        <5>1. Gone(after, a, Tail(ts), <<>>)
          BY <3>1, <4>2 DEF Gone
        <5> QED
          BY <1>2, <1>5, <3>1, <5>1 DEF Talking
      <4> QED
        BY <1>5, <4>1, <4>2
    <3>5. tc \o <<>> = <<>>
      BY <1>5
    <3>6. ServerInv(after, index, a, heard, Tail(ts), <<>>)
      BY <1>1, <1>2, <3>1, <3>4 DEF ServerInv, Running, Serving
    <3> QED
      BY <1>5, <3>1, <3>2, <3>3, <3>5, <3>6 DEF Replies, Reply
  <2>2. CASE ~Matches(s, ItsSid(s))
    <3>1. r = Reply("ended", Ended(s), <<PairAbort("mismatch")>>)
      BY <1>5, <2>2 DEF ServerReceive, InConfirm, PairConfirm
    <3> QED
      BY <1>1, <3>1, EndedReplies
  <2> QED
    BY <2>1, <2>2
<1>6. CASE /\ s.state = "confirm" /\ tc = <<>> /\ ts[1] = PairRetry
           /\ s.method = "dynamic" /\ Dialect = "specification"
           /\ \/ /\ a.state = "serverInit" /\ a.method = s.method /\ a.round = s.round + 1
                 /\ Tail(ts) = <<>>
              \/ a.state = "done" /\ \E why \in Reasons : Tail(ts) = <<PairAbort(why)>>
  <2> DEFINE after == [s EXCEPT !.state = "code", !.round = @ + 1, !.entry = NoEntry, !.heard = NoSid]
             m     == ServerInit(FALSE)
  <2>1. /\ after \in ServerAttempts /\ after.state = "code" /\ after.round = s.round + 1
        /\ after.index = s.index /\ after.method = s.method
    BY <1>1, NextType
  <2>2. r = Reply("continue", after, <<m>>)
    BY <1>6 DEF ServerReceive, InConfirm, PairRetry, NextRound
  <2>3. s.round > 0 /\ after.round > 1 /\ after.round # 1
    BY <1>1, <1>2, <2>1 DEF Talking
  <2>4. m \in ServerSays /\ m.type = "init" /\ m.nonce = FALSE
    BY ServerMessage DEF ServerInit
  <2> HIDE DEF after
  <2>5. m = Begins(after)
    BY <2>3 DEF Begins
  <2> HIDE DEF m
  <2>6. Talking(after, a, heard, Tail(ts), <<m>>)
    <3>1. CASE a.state = "serverInit" /\ a.method = s.method /\ a.round = s.round + 1 /\ Tail(ts) = <<>>
      <4>1. Together(after, a, Tail(ts), <<m>>)
        BY <2>1, <2>5, <3>1 DEF Together
      <4> QED
        BY <1>1, <1>2, <2>1, <2>3, <3>1, <4>1 DEF Talking
    <3>2. CASE a.state = "done" /\ \E why \in Reasons : Tail(ts) = <<PairAbort(why)>>
      <4>1. \A n \in 1..Len(<<m>>) : <<m>>[n].type \in {"init", "auth", "confirm"}
        BY <2>4
      <4>2. Gone(after, a, Tail(ts), <<m>>)
        BY <2>1, <2>5, <3>2, <4>1 DEF Gone
      <4> QED
        BY <1>1, <1>2, <2>1, <2>3, <4>2 DEF Talking
    <3> QED
      BY <1>6, <3>1, <3>2
  <2>7. Accepts(a, m)
    <3>1. a.state = "serverInit" => a.round # 1
      BY <1>6, <2>1, <2>3
    <3> QED
      BY <1>6, <2>4, <3>1 DEF Accepts
  <2>8. tc \o <<m>> = <<m>> /\ <<m>> # <<>>
    BY <1>6, <2>4
  <2>9. ServerInv(after, index, a, heard, Tail(ts), <<m>>)
    BY <1>1, <1>2, <2>1, <2>6 DEF ServerInv, Running, Serving
  <2> QED
    BY <1>6, <2>1, <2>2, <2>4, <2>7, <2>8, <2>9 DEF Replies, Reply
<1>7. CASE /\ s.state = "finalize" /\ tc = <<>> /\ ts[1] = PairFinalize(s.index, ItsSid(s))
           /\ a.state \in {"finalize", "done"}
  <2>1. s.entry.sid = ItsSid(s)
    BY <1>2, <1>7 DEF Talking
  <2>2. r = Finalized(s, PairFinalize(s.index, ItsSid(s)))
    BY <1>7, <2>1 DEF ServerReceive, InFinalize, PairFinalize
  <2>3. r.after = "paired" /\ r.psk = s.index /\ r.server = NoServerAttempt
    BY <2>2 DEF Finalized, PairFinalize
  <2> QED
    BY <1>1, <1>2, <1>7, <2>1, <2>3 DEF Proves
<1>8. CASE Gone(s, a, ts, tc)
  <2>1. PICK why \in Reasons :
          \/ ts = <<PairAbort(why)>>
          \/ s.state = "clientAuth" /\ ts = <<PairAuth(ItsSid(s)), PairAbort(why)>> /\ tc = <<>>
          \/ s.state = "confirm" /\ ts = Append(Proof(s), PairAbort(why)) /\ tc = <<>>
          \/ /\ s.state = "confirm" /\ ts = <<PairRetry, PairAbort(why)>> /\ tc = <<>>
             /\ s.method = "dynamic" /\ Dialect = "specification"
          \/ s.state = "finalize" /\ ts = <<PairFinalize(s.index, ItsSid(s)), PairAbort(why)>> /\ tc = <<>>
    BY <1>8 DEF Gone
  <2>2. a.state = "done"
    BY <1>8 DEF Gone
  <2>3. CASE ts = <<PairAbort(why)>>
    BY <1>3, <2>3
  <2>4. CASE s.state = "clientAuth" /\ ts = <<PairAuth(ItsSid(s)), PairAbort(why)>> /\ tc = <<>>
    <3>1. ts[1] = PairAuth(ItsSid(s)) /\ Tail(ts) = <<PairAbort(why)>>
      BY <2>4
    <3> QED
      BY <1>4, <2>2, <2>4, <3>1
  <2>5. CASE s.state = "confirm" /\ ts = Append(Proof(s), PairAbort(why)) /\ tc = <<>>
    <3>1. ts = <<PairConfirm(ItsSid(s)), PairFinalize(s.index, ItsSid(s)), PairAbort(why)>>
      <4>1. Append(Proof(s), PairAbort(why)) = <<PairConfirm(ItsSid(s)), PairFinalize(s.index, ItsSid(s)), PairAbort(why)>>
        <5> DEFINE c == PairConfirm(ItsSid(s))
                   f == PairFinalize(s.index, ItsSid(s))
                   m == PairAbort(why)
        <5>1. Proof(s) = <<c, f>>
          BY DEF Proof
        <5> HIDE DEF c, f, m
        <5>2. Append(<<c, f>>, m) = <<c, f, m>>
          BY WrittenThird, Zenon
        <5>3. Append(Proof(s), m) = <<c, f, m>>
          BY <5>1, <5>2
        <5> QED
          BY <5>3 DEF c, f, m
      <4> QED
        BY <2>5, <4>1
    <3>2. ts[1] = PairConfirm(ItsSid(s)) /\ Tail(ts) = <<PairFinalize(s.index, ItsSid(s)), PairAbort(why)>>
      BY <3>1
    <3> QED
      BY <1>5, <2>2, <2>5, <3>2
  <2>6. CASE /\ s.state = "confirm" /\ ts = <<PairRetry, PairAbort(why)>> /\ tc = <<>>
             /\ s.method = "dynamic" /\ Dialect = "specification"
    <3>1. ts[1] = PairRetry /\ Tail(ts) = <<PairAbort(why)>>
      BY <2>6
    <3> QED
      BY <1>6, <2>2, <2>6, <3>1
  <2>7. CASE s.state = "finalize" /\ ts = <<PairFinalize(s.index, ItsSid(s)), PairAbort(why)>> /\ tc = <<>>
    <3>1. ts[1] = PairFinalize(s.index, ItsSid(s))
      BY <2>7
    <3> QED
      BY <1>7, <2>2, <2>7, <3>1
  <2> QED
    BY <2>1, <2>3, <2>4, <2>5, <2>6, <2>7
<1>9. CASE Together(s, a, ts, tc) /\ a.method = s.method
  <2>1. CASE s.state = "code"
    BY <1>9, <2>1 DEF Together
  <2>2. CASE s.state = "clientAuth"
    <3>1. a.state = "confirm" /\ ts = <<PairAuth(ItsSid(s))>> /\ tc = <<>> /\ a.round = s.round
      BY <1>9, <2>2 DEF Together
    <3>2. ts[1] = PairAuth(ItsSid(s)) /\ Tail(ts) = <<>>
      BY <3>1
    <3> QED
      BY <1>4, <1>9, <2>2, <3>1, <3>2
  <2>3. CASE s.state = "confirm" /\ a.state = "finalize"
    <3>1. ts = <<PairConfirm(ItsSid(s)), PairFinalize(s.index, ItsSid(s))>> /\ tc = <<>>
      BY <1>9, <2>3 DEF Together, Proof
    <3>2. ts[1] = PairConfirm(ItsSid(s)) /\ Tail(ts) = <<PairFinalize(s.index, ItsSid(s))>>
      BY <3>1
    <3> QED
      BY <1>5, <1>9, <2>3, <3>1, <3>2
  <2>4. CASE s.state = "confirm" /\ a.state # "finalize"
    <3>1. /\ a.state = "serverInit" /\ a.round = s.round + 1 /\ ts = <<PairRetry>> /\ tc = <<>>
          /\ s.method = "dynamic" /\ Dialect = "specification"
      BY <1>9, <2>4 DEF Together
    <3>2. ts[1] = PairRetry /\ Tail(ts) = <<>>
      BY <3>1
    <3> QED
      BY <1>6, <1>9, <2>4, <3>1, <3>2
  <2>5. CASE s.state = "finalize"
    <3>1. a.state = "finalize" /\ ts = <<PairFinalize(s.index, ItsSid(s))>> /\ tc = <<>>
      BY <1>9, <2>5 DEF Together
    <3>2. ts[1] = PairFinalize(s.index, ItsSid(s))
      BY <3>1
    <3> QED
      BY <1>7, <2>5, <3>1, <3>2
  <2> QED
    BY <2>1, <2>2, <2>3, <2>4, <2>5 DEF Serving
<1> QED
  BY <1>2, <1>8, <1>9 DEF Talking

\* No message of a conforming client is out of sequence.
LEMMA ServerReplies ==
    ASSUME NEW s, NEW index, NEW a, NEW heard, NEW ts, NEW tc, Peers(s, index, a, heard, ts, tc),
           ts # <<>>, "psk" \notin Methods, NEW r, r = ServerReceive(s, ts[1], index)
    PROVE  Replies(r, s, index, a, heard, ts, tc) \/ Proves(r, s, heard, a, tc)
<1>1. s \in ServerAttempts /\ tc \in Seq(ServerSays) /\ ServerInv(s, index, a, heard, ts, tc)
  BY DEF Peers
<1>2. CASE s.state \in {"none", "done"}
  <2>1. index > 0
    <3>1. /\ heard > 0 /\ heard \in Nat /\ index \in Nat
          /\ heard + Cardinality(Activations(tc)) = index /\ Cardinality(Activations(tc)) \in Nat
      BY Activating DEF Peers, Sent, Counted
    <3> QED
      BY <3>1
  <2>2. r = Ignores(s)
    BY <1>2, <2>1 DEF ServerReceive
  <2>3. ServerInv(s, index, a, heard, Tail(ts), tc)
    BY <1>2, <2>1, NoneInv
  <2> QED
    BY <1>1, <2>2, <2>3, IgnoresReplies
<1>3. CASE s.state = "init"
  <2>1. s.method # "psk"
    BY <1>3, UpToDate
  <2> QED
    BY <1>3, <2>1, WaitingReplies
<1>4. CASE Serving(s)
  BY <1>4, TalkingReplies
<1> QED
  BY <1>1, <1>2, <1>3, <1>4 DEF ServerAttempts, ServerStates, Serving

----------------------------------------------------------------------------
(* The steps.                                                              *)

LEMMA QueueSent ==
    ASSUME NEW q \in Seq(ServerSays), NEW m \in ServerSays, NEW record, NEW heard, NEW entered
    PROVE  /\ m.type # "finalize" /\ FinalFirst(q, record, heard) => FinalFirst(Append(q, m), record, heard)
           /\ m.type \notin {"finalize", "rehandshake"} /\ Unpaired(q) => Unpaired(Append(q, m))
           /\ RightOf(q, entered) /\ (m.type \in {"auth", "confirm"} /\ m.entry.code = "right" => m.entry.sid[1] \in entered)
                 => RightOf(Append(q, m), entered)
<1>1. /\ Len(Append(q, m)) = Len(q) + 1 /\ Len(q) \in Nat /\ Append(q, m)[Len(q) + 1] = m
      /\ \A n \in 1..Len(q) : Append(q, m)[n] = q[n]
  BY Appended
<1>2. \A n \in 1..Len(q) + 1 : n \in 1..Len(q) \/ n = Len(q) + 1
  BY <1>1
<1>3. m.type # "finalize" /\ FinalFirst(q, record, heard) => FinalFirst(Append(q, m), record, heard)
  BY <1>1, <1>2 DEF FinalFirst
<1>4. m.type \notin {"finalize", "rehandshake"} /\ Unpaired(q) => Unpaired(Append(q, m))
  BY <1>1, <1>2 DEF Unpaired
<1>5. RightOf(q, entered) /\ (m.type \in {"auth", "confirm"} /\ m.entry.code = "right" => m.entry.sid[1] \in entered)
                 => RightOf(Append(q, m), entered)
  BY <1>1, <1>2 DEF RightOf
<1> QED
  BY <1>3, <1>4, <1>5

LEMMA QueueHeard ==
    ASSUME NEW q \in Seq(ServerSays), q # <<>>, NEW record, NEW heard, NEW entered
    PROVE  /\ FinalFirst(q, record, heard) => \A other, now : FinalFirst(Tail(q), other, now)
           /\ Unpaired(q) => Unpaired(Tail(q))
           /\ RightOf(q, entered) => RightOf(Tail(q), entered)
<1>1. \A n \in 1..Len(Tail(q)) : n \in Nat /\ n + 1 \in 1..Len(q) /\ Tail(q)[n] = q[n + 1] /\ n + 1 # 1
  BY Shifted
<1>2. FinalFirst(q, record, heard) => \A other, now : FinalFirst(Tail(q), other, now)
  BY <1>1 DEF FinalFirst
<1>3. Unpaired(q) => Unpaired(Tail(q))
  BY <1>1 DEF Unpaired
<1>4. RightOf(q, entered) => RightOf(Tail(q), entered)
  BY <1>1 DEF RightOf
<1> QED
  BY <1>2, <1>3, <1>4

\* What is entered stays entered.
LEMMA RightMore ==
    ASSUME NEW q, NEW s, NEW entered, NEW more, entered \subseteq more
    PROVE  /\ RightOf(q, entered) => RightOf(q, more)
           /\ RightAt(s, entered) => RightAt(s, more)
BY DEF RightOf, RightAt

\* The server sends a message that needs no answer, or the one that is waited for.
LEMMA LinkSays ==
    ASSUME NEW q \in Seq(ServerSays), NEW a, NEW heard \in Nat, NEW index \in Nat, NEW record,
           Linked(q, a, heard, index, record), NEW m \in ServerSays, m.type # "finalize",
           Always(m) \/ (q = <<>> /\ Accepts(a, m)) \/ (q # <<>> /\ Chained(Append(q, m), a, heard)),
           IsActivation(m) \/ index > 0
    PROVE  Linked(Append(q, m), a, heard, IF IsActivation(m) THEN index + 1 ELSE index, record)
<1>1. heard + Cardinality(Activations(q)) = index /\ Cardinality(Activations(q)) \in Nat
  BY Activating DEF Linked, Counted
<1>2. Counted(heard, Append(q, m), IF IsActivation(m) THEN index + 1 ELSE index)
  <2>1. Cardinality(Activations(Append(q, m))) = Cardinality(Activations(q)) + (IF IsActivation(m) THEN 1 ELSE 0)
    BY ActivationSent
  <2> QED
    BY <1>1, <2>1 DEF Counted
<1>3. q = <<>> => heard = index
  <2> SUFFICES ASSUME q = <<>> PROVE heard = index
    OBVIOUS
  <2>1. Activations(q) = {}
    BY DEF Activations
  <2>2. Cardinality(Activations(q)) = 0
    BY <2>1, FS_EmptySet
  <2> QED
    BY <1>1, <2>2
<1>4. Chained(Append(q, m), a, heard)
  <2>1. Chained(q, a, heard) /\ (q = <<>> /\ heard = 0 => IsActivation(m))
    BY <1>3 DEF Linked
  <2>2. CASE Always(m)
    BY <2>1, <2>2, AlwaysSent
  <2>3. CASE q = <<>> /\ Accepts(a, m)
    BY <2>1, <2>3, ChainSent
  <2> QED
    BY <2>2, <2>3
<1>5. FinalFirst(Append(q, m), record, heard)
  BY QueueSent DEF Linked
<1> QED
  BY <1>2, <1>4, <1>5 DEF Linked

LEMMA FlowTypes ==
    ASSUME FlowInv
    PROVE  /\ Conn \in Connections /\ attempt \in [Connections -> AttemptRecords] /\ shared \in SharedStates
           /\ pairingIndex \in [Connections -> Nat] /\ Its \in AttemptRecords /\ Heard \in Nat
           /\ live \subseteq Connections /\ resuming \subseteq Connections /\ acts \in Nat
           /\ toServer \in Seq(ClientSays) /\ toClient \in Seq(ServerSays)
           /\ server \in ServerAttempts /\ serverIndex \in Nat /\ serverIndex \in 0..MaxIndex
           /\ Current(Its, Heard) /\ Sent(toServer, Heard)
BY FlowAssumption, PairingAssumption
   DEF FlowInv, FlowTypeOK, ClientTypeOK, SharedStates, Its, Heard, PeersInv

LEMMA ActivePeers ==
    ASSUME FlowInv, phase = "active"
    PROVE  /\ Peers(server, serverIndex, Its, Heard, toServer, toClient)
           /\ Conn \in live /\ Linked(toClient, Its, Heard, serverIndex, serverRecord) /\ Unpaired(toClient)
           /\ clientRecord = NoRecord /\ serverRecord = NoRecord
           /\ Heard <= serverIndex
<1>1. /\ Conn \in live /\ Linked(toClient, Its, Heard, serverIndex, serverRecord) /\ Unpaired(toClient)
      /\ clientRecord = NoRecord /\ serverRecord = NoRecord
      /\ ServerInv(server, serverIndex, Its, Heard, toServer, toClient)
  BY DEF FlowInv, PeersInv
<1>2. Peers(server, serverIndex, Its, Heard, toServer, toClient)
  BY <1>1, FlowTypes DEF Peers, Linked
<1>3. Heard + Cardinality(Activations(toClient)) = serverIndex /\ Cardinality(Activations(toClient)) \in Nat
  BY <1>1, FlowTypes, Activating DEF Linked, Counted
<1> QED
  BY <1>1, <1>2, <1>3, FlowTypes

LEMMA FlowInitInv == FlowInit => FlowInv
<1> SUFFICES ASSUME FlowInit PROVE FlowInv
  OBVIOUS
<1>1. LimitsInv /\ Conn \in Connections
  BY ClientInitInv, FlowAssumption DEF FlowInit
<1>2. /\ Its = NoAttempt /\ Heard = 0 /\ toServer = <<>> /\ toClient = <<>> /\ server = NoServerAttempt
      /\ serverIndex = 0 /\ clientRecord = NoRecord /\ serverRecord = NoRecord /\ errors = 0 /\ proved = {}
      /\ Conn \in live /\ phase = "active"
  BY <1>1 DEF FlowInit, ClientInit, Its, Heard
<1>3. NoAttempt.state = "none" /\ NoServerAttempt.state = "none" /\ NoServerAttempt \in ServerAttempts
  BY ServerType DEF NoAttempt
<1>4. FlowTypeOK
  BY <1>1, <1>2, <1>3, PairingAssumption DEF FlowTypeOK, LimitsInv
<1>5. NoProtocolError /\ RecordsAgree /\ RecordIsProved
  BY <1>2, <1>3 DEF NoProtocolError, RecordsAgree, RecordIsProved, Its
<1>6. Current(Its, Heard) /\ Sent(<<>>, 0) /\ RightOf(<<>>, {}) /\ RightAt(NoServerAttempt, {}) /\ Unpaired(<<>>)
  BY <1>2, <1>3 DEF Current, Coherent, Sent, RightOf, RightAt, Unpaired
<1>7. Linked(<<>>, Its, 0, 0, NoRecord)
  <2>1. Activations(<<>>) = {} /\ Cardinality({}) = 0
    BY FS_EmptySet DEF Activations
  <2> QED
    BY <2>1 DEF Linked, Counted, Chained, FinalFirst
<1>8. ServerInv(NoServerAttempt, 0, Its, 0, <<>>, <<>>)
  BY <1>3 DEF ServerInv, Running, Serving
<1>9. toServer \in Seq(ClientSays) /\ toClient \in Seq(ServerSays)
  BY <1>2
<1> QED
  BY <1>2, <1>4, <1>5, <1>6, <1>7, <1>8, <1>9 DEF FlowInv, PeersInv

\* A step of the server's leaves the client as it was.
LEMMA ServerKeeps ==
    ASSUME FlowInv, UNCHANGED <<clientVars, clientRecord, errors>>,
           server' \in ServerAttempts, phase' \in {"active", "rehandshake", "closed"}, serverIndex' \in 0..MaxIndex,
           serverRecord' \in (1..MaxIndex) \cup {NoRecord}, proved \subseteq proved', proved' \subseteq 1..MaxIndex,
           toServer' \in Seq(ClientSays), Sent(toServer', Heard), toClient' \in Seq(ServerSays),
           Conn \in live => Linked(toClient', Its, Heard, serverIndex', serverRecord'),
           serverRecord' # serverRecord => clientRecord = NoRecord /\ serverRecord' \in proved',
           RightOf(toClient', proved'), RightAt(server', proved'),
           server'.state = "finalize" => server'.index \in proved',
           phase' = "active" =>
              /\ phase = "active" /\ serverRecord' = NoRecord /\ Unpaired(toClient')
              /\ ServerInv(server', serverIndex', Its, Heard, toServer', toClient')
    PROVE  FlowInv'
<1>1. Its' = Its /\ Heard' = Heard /\ live' = live /\ clientRecord' = clientRecord /\ errors' = errors
  BY DEF clientVars, Its, Heard
<1>2. ClientTypeOK'
  BY DEF clientVars, FlowInv, FlowTypeOK, ClientTypeOK
<1>3. FlowTypeOK'
  BY <1>1, <1>2 DEF FlowInv, FlowTypeOK
<1>4. NoProtocolError' /\ RecordsAgree'
  BY <1>1 DEF FlowInv, NoProtocolError, RecordsAgree
<1>5. RecordIsProved'
  <2>1. Its.state = "finalize" => Its.index \in proved'
    BY DEF FlowInv, RecordIsProved, Its
  <2>2. {clientRecord, serverRecord'} \ {NoRecord} \subseteq proved'
    BY DEF FlowInv, RecordIsProved
  <2> QED
    BY <1>1, <2>1, <2>2 DEF RecordIsProved, Its
<1>6. PeersInv'
  <2>1. Current(Its, Heard) /\ (phase = "active" => Conn \in live /\ clientRecord = NoRecord)
    BY DEF FlowInv, PeersInv
  <2> QED
    BY <1>1, <2>1 DEF PeersInv
<1> QED
  BY <1>3, <1>4, <1>5, <1>6 DEF FlowInv

LEMMA ServerActivatesKeeps ==
    ASSUME FlowInv, NEW method \in Methods, ServerActivates(method)
    PROVE  FlowInv'
<1>1. /\ phase = "active" /\ phase' = "active" /\ serverIndex < MaxIndex /\ serverIndex' = serverIndex + 1
      /\ server' = [NoServerAttempt EXCEPT !.state = "init", !.method = method, !.index = serverIndex + 1]
      /\ toClient' = Append(toClient, Activate(method)) /\ toServer' = toServer
      /\ UNCHANGED <<clientVars, clientRecord, errors>> /\ serverRecord' = serverRecord /\ proved' = proved
  BY DEF ServerActivates
<1>2. /\ Linked(toClient, Its, Heard, serverIndex, serverRecord) /\ Unpaired(toClient)
      /\ serverRecord = NoRecord /\ Heard <= serverIndex
  BY <1>1, ActivePeers
<1>3. server' \in ServerAttempts /\ ServerInv(server', serverIndex', Its, Heard, toServer', toClient')
  BY <1>1, <1>2, FlowTypes, ActivateInv
<1>4. Activate(method) \in ServerSays /\ Activate(method).type = "activate" /\ IsActivation(Activate(method))
  BY ServerMessage, Named DEF Activate, IsActivation
<1>5. Linked(toClient', Its, Heard, serverIndex', serverRecord')
  BY <1>1, <1>2, <1>4, FlowTypes, LinkSays DEF Always
<1>6. Unpaired(toClient') /\ RightOf(toClient', proved) /\ toClient' \in Seq(ServerSays)
  BY <1>1, <1>2, <1>4, FlowTypes, QueueSent, Appended DEF FlowInv
<1>7. serverIndex' \in 0..MaxIndex
  BY <1>1, FlowTypes, PairingAssumption
<1>8. server'.state = "init"
  BY <1>1, ServerType DEF ServerAttempts
<1>9. RightAt(server', proved)
  BY <1>8 DEF RightAt
<1>10. /\ serverRecord \in (1..MaxIndex) \cup {NoRecord} /\ proved \subseteq 1..MaxIndex
  BY DEF FlowInv, FlowTypeOK
<1> QED
  BY <1>1, <1>2, <1>3, <1>5, <1>6, <1>7, <1>8, <1>9, <1>10, FlowTypes, ServerKeeps

LEMMA EnterCodeKeeps ==
    ASSUME FlowInv, NEW code \in {"right", "wrong"}, EnterCode(code)
    PROVE  FlowInv'
<1> DEFINE e == [sid |-> <<server.index, server.round>>, code |-> code]
<1>1. /\ phase = "active" /\ phase' = "active" /\ server.state = "code" /\ serverIndex' = serverIndex
      /\ server' = [server EXCEPT !.state = "clientAuth", !.entry = e]
      /\ toClient' = Append(toClient, EntryOf("auth", e)) /\ toServer' = toServer
      /\ proved' = IF code = "right" THEN proved \cup {server.index} ELSE proved
      /\ UNCHANGED <<clientVars, clientRecord, errors>> /\ serverRecord' = serverRecord
  BY DEF EnterCode
<1>2. /\ Peers(server, serverIndex, Its, Heard, toServer, toClient)
      /\ Linked(toClient, Its, Heard, serverIndex, serverRecord) /\ Unpaired(toClient) /\ serverRecord = NoRecord
  BY <1>1, ActivePeers
<1>3. /\ e \in Entry /\ server' \in ServerAttempts
      /\ Chained(toClient', Its, Heard)
      /\ ServerInv(server', serverIndex', Its, Heard, toServer', toClient')
  BY <1>1, <1>2, EnterInv
<1>4. server.index = serverIndex /\ server.index > 0
  BY <1>1, <1>2, UpToDate DEF Serving
<1>5. e.code = code /\ e.sid[1] = server.index
  OBVIOUS
<1> HIDE DEF e
<1>6. EntryOf("auth", e) \in ServerSays /\ EntryOf("auth", e).type = "auth" /\ EntryOf("auth", e).entry = e
  BY <1>3, ServerMessage DEF EntryOf
<1>7. ~IsActivation(EntryOf("auth", e))
  BY <1>6 DEF IsActivation
<1>8. Linked(toClient', Its, Heard, serverIndex', serverRecord')
  <2>1. Accepts(Its, EntryOf("auth", e)) \/ toClient # <<>>
    <3>1. ASSUME toClient = <<>> PROVE Accepts(Its, EntryOf("auth", e))
      <4>1. Append(toClient, EntryOf("auth", e))[1] = EntryOf("auth", e) /\ toClient' # <<>>
        BY <1>1, <3>1
      <4> QED
        BY <1>1, <1>3, <4>1 DEF Chained
    <3> QED
      BY <3>1
  <2> QED
    BY <1>1, <1>2, <1>3, <1>4, <1>6, <1>7, <2>1, FlowTypes, LinkSays
<1>9. proved \subseteq proved' /\ (code = "right" => e.sid[1] \in proved')
  BY <1>1, <1>5
<1>10. RightOf(toClient', proved')
  <2>1. RightOf(toClient, proved')
    BY <1>9, RightMore DEF FlowInv
  <2> QED
    BY <1>1, <1>5, <1>6, <1>9, <2>1, FlowTypes, QueueSent
<1>11. server'.state = "clientAuth" /\ server'.entry = e
  BY <1>1, FlowTypes DEF ServerAttempts
<1>12. RightAt(server', proved')
  BY <1>5, <1>9, <1>11 DEF RightAt
<1>13. Unpaired(toClient') /\ toClient' \in Seq(ServerSays)
  BY <1>1, <1>2, <1>6, FlowTypes, QueueSent, Appended
<1>14. /\ serverRecord \in (1..MaxIndex) \cup {NoRecord} /\ proved' \subseteq 1..MaxIndex
  BY <1>1, <1>4, FlowTypes DEF FlowInv, FlowTypeOK
<1> QED
  BY <1>1, <1>2, <1>3, <1>8, <1>9, <1>10, <1>11, <1>12, <1>13, <1>14, FlowTypes, ServerKeeps

\* The server leaves pairing: an abort unless the client has gone or is to be
\* told nothing, and an activation that declares nothing.
LEMMA LeavesKeeps ==
    ASSUME FlowInv, phase = "active", server.state # "none",
           NEW out \in {<<>>, <<PairAbort("cancelled")>>}, Leaves(out)
    PROVE  FlowInv'
<1> DEFINE q    == toClient \o out
           last == Activate("none")
<1>1. /\ server' = NoServerAttempt /\ toClient' = (toClient \o out) \o <<last>> /\ toServer' = toServer
      /\ phase' = phase /\ serverIndex' = serverIndex /\ serverRecord' = serverRecord /\ proved' = proved
      /\ UNCHANGED <<clientVars, clientRecord, errors>>
  BY DEF Leaves
<1>2. /\ Linked(toClient, Its, Heard, serverIndex, serverRecord) /\ Unpaired(toClient) /\ serverRecord = NoRecord
      /\ Peers(server, serverIndex, Its, Heard, toServer, toClient)
  BY ActivePeers
<1>3. serverIndex > 0 /\ toClient \in Seq(ServerSays) /\ RightOf(toClient, proved)
  BY <1>2 DEF Peers, ServerInv, FlowInv
<1>4. /\ PairAbort("cancelled") \in ServerSays /\ PairAbort("cancelled").type = "abort"
      /\ Always(PairAbort("cancelled")) /\ ~IsActivation(PairAbort("cancelled"))
  BY ServerMessage DEF Reasons, PairAbort, Always, IsActivation
<1>5. last \in ServerSays /\ last.type = "activate" /\ Always(last) /\ ~IsActivation(last)
  BY ServerMessage DEF Activate, Always, IsActivation
<1> HIDE DEF last
<1>6. q \in Seq(ServerSays) /\ Linked(q, Its, Heard, serverIndex, serverRecord) /\ Unpaired(q) /\ RightOf(q, proved)
  <2>1. CASE out = <<>>
    <3>1. q = toClient
      BY <1>3, <2>1, ConcatEmptySeq
    <3> QED
      BY <1>2, <1>3, <3>1
  <2>2. CASE out = <<PairAbort("cancelled")>>
    <3>1. q = Append(toClient, PairAbort("cancelled"))
      BY <1>3, <1>4, <2>2, Concats
    <3>2. Linked(q, Its, Heard, serverIndex, serverRecord)
      BY <1>2, <1>3, <1>4, <3>1, FlowTypes, LinkSays
    <3> QED
      BY <1>2, <1>3, <1>4, <3>1, <3>2, QueueSent, Appended
  <2> QED
    BY <2>1, <2>2
<1>7. toClient' = Append(q, last)
  BY <1>1, <1>5, <1>6, Concats
<1> HIDE DEF q
<1>8. Linked(toClient', Its, Heard, serverIndex, serverRecord)
  BY <1>3, <1>5, <1>6, <1>7, FlowTypes, LinkSays
<1>9. Unpaired(toClient') /\ RightOf(toClient', proved) /\ toClient' \in Seq(ServerSays)
  BY <1>5, <1>6, <1>7, QueueSent, Appended
<1>10. /\ RightAt(NoServerAttempt, proved) /\ NoServerAttempt \in ServerAttempts /\ NoServerAttempt.state = "none"
       /\ ServerInv(NoServerAttempt, serverIndex, Its, Heard, toServer, toClient')
  BY ServerType DEF RightAt, ServerInv, Running, Serving
<1>11. /\ serverRecord \in (1..MaxIndex) \cup {NoRecord} /\ proved \subseteq 1..MaxIndex
       /\ phase \in {"active", "rehandshake", "closed"}
  BY DEF FlowInv, FlowTypeOK
<1> QED
  BY <1>1, <1>2, <1>8, <1>9, <1>10, <1>11, FlowTypes, ServerKeeps

\* What the server's handler leaves keeps the invariant.
LEMMA RepliesKeep ==
    ASSUME FlowInv, phase = "active", toServer # <<>>, NEW r,
           Replies(r, server, serverIndex, Its, Heard, toServer, toClient),
           toServer' = Tail(toServer), server' = r.server, errors' = errors, phase' = phase,
           toClient' = toClient \o r.out, serverRecord' = serverRecord, serverIndex' = serverIndex,
           UNCHANGED <<clientVars, clientRecord, proved>>
    PROVE  FlowInv'
<1>1. /\ Peers(server, serverIndex, Its, Heard, toServer, toClient)
      /\ Linked(toClient, Its, Heard, serverIndex, serverRecord) /\ Unpaired(toClient)
      /\ clientRecord = NoRecord /\ serverRecord = NoRecord /\ Heard <= serverIndex
  BY ActivePeers
<1>2. Heard > 0 /\ serverIndex > 0
  BY <1>1, FlowTypes DEF Sent
<1>3. toServer' \in Seq(ClientSays) /\ Sent(toServer', Heard)
  BY FlowTypes, SentRead, Shifted
<1>4. /\ r.server \in ServerAttempts
      /\ ServerInv(r.server, serverIndex, Its, Heard, Tail(toServer), toClient \o r.out)
      /\ r.server.state \in {"clientAuth", "confirm", "finalize"} =>
            /\ r.server.entry = server.entry /\ r.server.index = server.index
            /\ server.state \in {"clientAuth", "confirm", "finalize"}
      /\ r.server.state = "finalize" => server.state = "finalize" \/ server.entry.code = "right"
  BY DEF Replies
<1>5. RightOf(toClient, proved) /\ RightAt(server, proved)
  BY DEF FlowInv
<1>6. /\ toClient' \in Seq(ServerSays) /\ Linked(toClient', Its, Heard, serverIndex, serverRecord)
      /\ Unpaired(toClient') /\ RightOf(toClient', proved)
  <2>1. CASE r.out = <<>>
    <3>1. toClient' = toClient
      BY <2>1, FlowTypes, ConcatEmptySeq
    <3> QED
      BY <1>1, <1>5, <3>1, FlowTypes
  <2>2. CASE r.out # <<>>
    <3>1. PICK m \in ServerSays :
            /\ r.out = <<m>> /\ m.type \in {"init", "confirm", "abort"}
            /\ Always(m) \/ (toClient = <<>> /\ Accepts(Its, m))
            /\ m.type = "confirm" => m.entry = server.entry /\ server.state = "clientAuth"
      BY <2>2 DEF Replies
    <3>2. toClient' = Append(toClient, m)
      BY <3>1, FlowTypes, Concats
    <3>3. ~IsActivation(m) /\ m.type # "finalize" /\ m.type \notin {"finalize", "rehandshake"}
      BY <3>1 DEF IsActivation
    <3>4. Linked(toClient', Its, Heard, serverIndex, serverRecord)
      BY <1>1, <1>2, <3>1, <3>2, <3>3, FlowTypes, LinkSays
    <3>5. m.type \in {"auth", "confirm"} /\ m.entry.code = "right" => m.entry.sid[1] \in proved
      BY <1>5, <3>1 DEF RightAt
    <3>6. toClient \in Seq(ServerSays)
      BY FlowTypes
    <3>7. toClient' \in Seq(ServerSays)
      BY <3>1, <3>2, <3>6, Appended
    <3>8. Unpaired(toClient')
      BY <1>1, <3>1, <3>2, <3>3, <3>6, QueueSent
    <3>9. RightOf(toClient', proved)
      BY <1>5, <3>1, <3>2, <3>5, <3>6, QueueSent
    <3> QED
      BY <3>4, <3>7, <3>8, <3>9
  <2> QED
    BY <2>1, <2>2
<1>7. RightAt(server', proved)
  BY <1>4, <1>5 DEF RightAt
<1>8. server'.state = "finalize" => server'.index \in proved
  <2> SUFFICES ASSUME server'.state = "finalize" PROVE server'.index \in proved
    OBVIOUS
  <2>1. /\ Serving(server) /\ server.state # "code" /\ server'.index = server.index
        /\ server'.entry = server.entry /\ server'.entry.sid[1] \in proved
    BY <1>4, <1>7 DEF Serving, RightAt
  <2>2. server.entry.sid = ItsSid(server)
    BY <1>1, <2>1, UpToDate DEF Talking
  <2> QED
    BY <2>1, <2>2 DEF ItsSid
<1>9. /\ serverRecord \in (1..MaxIndex) \cup {NoRecord} /\ proved \subseteq 1..MaxIndex
  BY DEF FlowInv, FlowTypeOK
<1> QED
  BY <1>1, <1>3, <1>4, <1>6, <1>7, <1>8, <1>9, FlowTypes, ServerKeeps

\* The client has proved itself: the record is persisted, or the connection closes.
LEMMA ProvesKeep ==
    ASSUME FlowInv, phase = "active", toServer # <<>>, NEW r,
           Proves(r, server, Heard, Its, toClient),
           toServer' = Tail(toServer), server' = r.server, errors' = errors, Persists(r.psk),
           serverIndex' = serverIndex, UNCHANGED <<clientVars, clientRecord, proved>>
    PROVE  FlowInv'
<1>1. /\ Linked(toClient, Its, Heard, serverIndex, serverRecord) /\ clientRecord = NoRecord /\ serverRecord = NoRecord
      /\ Peers(server, serverIndex, Its, Heard, toServer, toClient)
  BY ActivePeers
<1>2. /\ server.state = "finalize" /\ r.psk = server.index /\ server' = NoServerAttempt /\ Heard = server.index
      /\ Heard > 0 /\ server.entry.sid = ItsSid(server) /\ toClient = <<>> /\ Its.state \in {"finalize", "done"}
  BY DEF Proves
<1>3. server.index \in proved /\ proved \subseteq 1..MaxIndex
  BY <1>2 DEF FlowInv, RecordIsProved, FlowTypeOK
<1>4. toServer' \in Seq(ClientSays) /\ Sent(toServer', Heard)
  BY FlowTypes, SentRead, Shifted
<1>5. /\ RightAt(NoServerAttempt, proved) /\ NoServerAttempt \in ServerAttempts /\ NoServerAttempt.state = "none"
      /\ RightOf(toClient, proved)
  BY ServerType DEF RightAt, FlowInv
<1>6. CASE /\ serverRecord' = r.psk /\ phase' = "rehandshake"
           /\ toClient' = toClient \o <<[type |-> "finalize"], Rehandshake(r.psk)>>
  <2> DEFINE word  == [type |-> "finalize"]
             again == Rehandshake(server.index)
             q     == Append(<<>>, word)
  <2>1. word \in ServerSays /\ word.type = "finalize" /\ again \in ServerSays /\ again.type = "rehandshake"
    BY <1>1, ServerMessage DEF Peers, ServerAttempts, Rehandshake
  <2>2. ~IsActivation(word) /\ ~IsActivation(again) /\ Always(again) /\ Accepts(Its, word)
    BY <1>2, <2>1 DEF IsActivation, Always, Accepts
  <2> HIDE DEF word, again
  <2>3. toClient' = Append(q, again)
    BY <1>2, <1>6, <2>1, FlowTypes, Concats DEF word, again
  <2>4. /\ <<>> \in Seq(ServerSays) /\ q \in Seq(ServerSays) /\ Len(q) = 1 /\ q[1] = word /\ q # <<>>
    BY <2>1
  <2>5. Chained(q, Its, Heard)
    <3>1. Chained(<<>>, Its, Heard)
      BY <1>1, <1>2 DEF Linked
    <3>2. <<>> = <<>> => Accepts(Its, word) /\ (Heard = 0 => IsActivation(word))
      BY <1>2, <2>2
    <3>3. Chained(Append(<<>>, word), Its, Heard)
      BY <2>1, <2>4, <3>1, <3>2, ChainSent
    <3> QED
      BY <3>3
  <2>6. Chained(Append(q, again), Its, Heard)
    <3> HIDE DEF q
    <3> QED
      BY <2>1, <2>2, <2>4, <2>5, AlwaysSent
  <2>7. Counted(Heard, Append(q, again), serverIndex)
    <3>1. Cardinality(Activations(q)) = Cardinality(Activations(<<>>)) + 0
      BY <2>1, <2>2, <2>4, ActivationSent
    <3>2. Cardinality(Activations(Append(q, again))) = Cardinality(Activations(q)) + 0
      BY <2>1, <2>2, <2>4, ActivationSent
    <3>3. Cardinality(Activations(<<>>)) \in Nat /\ Heard + Cardinality(Activations(<<>>)) = serverIndex
      BY <1>1, <1>2, <2>4, Activating DEF Linked, Counted
    <3> HIDE DEF q
    <3> QED
      BY <3>1, <3>2, <3>3 DEF Counted
  <2>8. FinalFirst(Append(q, again), server.index, Heard)
    <3>1. FinalFirst(q, server.index, Heard)
      BY <1>2, <2>4 DEF FinalFirst
    <3> HIDE DEF q
    <3> QED
      BY <2>1, <2>4, <3>1, QueueSent
  <2>9. RightOf(Append(q, again), proved)
    <3>1. RightOf(q, proved)
      BY <1>2, <1>5, <2>1, <2>4, QueueSent
    <3> HIDE DEF q
    <3> QED
      BY <2>1, <2>4, <3>1, QueueSent
  <2>10. Append(q, again) \in Seq(ServerSays)
    BY <2>1, <2>4, Appended
  <2> HIDE DEF q
  <2>11. serverRecord' = server.index /\ server.index \in (1..MaxIndex) \cup {NoRecord}
    BY <1>2, <1>3, <1>6
  <2>12. Linked(toClient', Its, Heard, serverIndex', serverRecord')
    BY <2>3, <2>6, <2>7, <2>8, <2>11 DEF Linked
  <2> QED
    BY <1>1, <1>2, <1>3, <1>4, <1>5, <1>6, <2>3, <2>9, <2>10, <2>11, <2>12, FlowTypes, ServerKeeps
<1>7. CASE phase' = "closed" /\ UNCHANGED <<serverRecord, toClient>>
  <2>1. serverRecord \in (1..MaxIndex) \cup {NoRecord}
    BY DEF FlowInv, FlowTypeOK
  <2> QED
    BY <1>1, <1>2, <1>3, <1>4, <1>5, <1>7, <2>1, FlowTypes, ServerKeeps
<1> QED
  BY <1>6, <1>7 DEF Persists

LEMMA ServerReceivesKeeps ==
    ASSUME FlowInv, "psk" \notin Methods, ServerReceives
    PROVE  FlowInv'
<1>1. /\ toServer # <<>> /\ phase # "closed" /\ toServer' = Tail(toServer) /\ toServer \in Seq(ClientSays)
      /\ UNCHANGED <<clientVars, clientRecord, proved>>
  BY FlowTypes DEF ServerReceives
<1>2. toServer' \in Seq(ClientSays) /\ Sent(toServer', Heard) /\ Head(toServer) = toServer[1]
  BY <1>1, FlowTypes, SentRead, Shifted
<1>3. CASE phase = "rehandshake"
  <2>1. UNCHANGED <<serverVars, toClient, errors>>
    BY <1>3 DEF ServerReceives
  <2>2. /\ server' = server /\ phase' = phase /\ serverIndex' = serverIndex /\ serverRecord' = serverRecord
        /\ toClient' = toClient /\ errors' = errors
    BY <2>1 DEF serverVars
  <2>3. /\ Conn \in live => Linked(toClient, Its, Heard, serverIndex, serverRecord)
        /\ RightOf(toClient, proved) /\ RightAt(server, proved) /\ proved \subseteq 1..MaxIndex
        /\ server.state = "finalize" => server.index \in proved
        /\ serverRecord \in (1..MaxIndex) \cup {NoRecord}
    BY DEF FlowInv, PeersInv, RecordIsProved, FlowTypeOK
  <2> QED
    BY <1>1, <1>2, <1>3, <2>2, <2>3, FlowTypes, ServerKeeps
<1>4. CASE phase # "rehandshake"
  <2>1. phase = "active"
    BY <1>1, <1>4 DEF FlowInv, FlowTypeOK
  <2>2. PICK r : r = ServerReceive(server, Head(toServer), serverIndex)
    OBVIOUS
  <2>3. /\ server' = r.server /\ serverIndex' = serverIndex
        /\ errors' = IF r.after = "error" THEN errors + 1 ELSE errors
        /\ r.after = "paired" => Persists(r.psk)
        /\ r.after # "paired" => /\ phase' = IF r.after \in {"close", "error"} THEN "closed" ELSE phase
                                 /\ toClient' = toClient \o r.out /\ serverRecord' = serverRecord
    BY <1>4, <2>2 DEF ServerReceives
  <2>4. Replies(r, server, serverIndex, Its, Heard, toServer, toClient) \/ Proves(r, server, Heard, Its, toClient)
    BY <1>1, <1>2, <2>1, <2>2, ActivePeers, ServerReplies
  <2>5. CASE Replies(r, server, serverIndex, Its, Heard, toServer, toClient)
    <3>1. r.after \in {"continue", "ended"}
      BY <2>5 DEF Replies
    <3> QED
      BY <1>1, <2>1, <2>3, <2>5, <3>1, RepliesKeep
  <2>6. CASE Proves(r, server, Heard, Its, toClient)
    <3>1. r.after = "paired"
      BY <2>6 DEF Proves
    <3> QED
      BY <1>1, <2>1, <2>3, <2>6, <3>1, ProvesKeep
  <2> QED
    BY <2>4, <2>5, <2>6
<1> QED
  BY <1>3, <1>4

\* A step of the client's session leaves the server as it was.
LEMMA ClientKeeps ==
    ASSUME FlowInv, NEW step, Sends(step), step.after # "error",
           step.attempt \in AttemptRecords, step.shared \in SharedStates,
           NEW now \in Nat, Heard' = now, pairingIndex' \in [Connections -> Nat],
           resuming' \subseteq Connections, acts' \in Nat,
           Current(step.attempt, now), toServer' \in Seq(ClientSays), Sent(toServer', now),
           toClient' \in Seq(ServerSays), RightOf(toClient', proved),
           Linked(toClient', step.attempt, now, serverIndex, serverRecord),
           step.attempt.state = "finalize" => step.attempt.index \in proved,
           clientRecord' \in {clientRecord, serverRecord},
           phase = "active" =>
              /\ step.after # "close" /\ clientRecord' = clientRecord /\ Unpaired(toClient')
              /\ ServerInv(server, serverIndex, step.attempt, now, toServer', toClient')
    PROVE  FlowInv'
<1>1. /\ Conn \in live /\ attempt' = [attempt EXCEPT ![Conn] = step.attempt] /\ shared' = step.shared
      /\ live' = IF step.after \in {"close", "error"} THEN live \ {Conn} ELSE live
  BY DEF Sends, Takes
<1>2. /\ errors' = errors /\ server' = server /\ phase' = phase /\ serverIndex' = serverIndex
      /\ serverRecord' = serverRecord /\ proved' = proved
  BY DEF Sends, serverVars
<1>3. Its' = step.attempt /\ attempt' \in [Connections -> AttemptRecords]
  BY <1>1, FlowTypes DEF Its
<1>4. clientRecord' \in {NoRecord, serverRecord}
  BY DEF FlowInv, RecordsAgree
<1>5. /\ server \in ServerAttempts /\ phase \in {"active", "rehandshake", "closed"} /\ serverIndex \in 0..MaxIndex
      /\ serverRecord \in (1..MaxIndex) \cup {NoRecord} /\ proved \subseteq 1..MaxIndex /\ errors \in 0..2
  BY DEF FlowInv, FlowTypeOK
<1>6. live' \subseteq Connections
  BY <1>1, FlowTypes
<1>7. FlowTypeOK'
  <2>1. ClientTypeOK'
    BY <1>1, <1>3, <1>6 DEF ClientTypeOK, SharedStates
  <2> QED
    BY <1>2, <1>4, <1>5, <2>1 DEF FlowTypeOK
<1>8. NoProtocolError' /\ RecordsAgree'
  BY <1>2, <1>4 DEF NoProtocolError, RecordsAgree, FlowInv
<1>9. RecordIsProved'
  <2>1. /\ serverRecord = NoRecord \/ serverRecord \in proved
        /\ server.state = "finalize" => server.index \in proved
    BY DEF FlowInv, RecordIsProved
  <2>2. attempt'[Conn] = step.attempt
    BY <1>3 DEF Its
  <2>3. clientRecord' = NoRecord \/ clientRecord' \in proved
    BY <1>4, <2>1
  <2>4. {clientRecord', serverRecord'} \ {NoRecord} \subseteq proved'
    BY <1>2, <2>1, <2>3
  <2>5. attempt'[Conn].state = "finalize" => attempt'[Conn].index \in proved'
    BY <1>2, <2>2
  <2>6. server'.state = "finalize" => server'.index \in proved'
    BY <1>2, <2>1
  <2> QED
    BY <2>4, <2>5, <2>6 DEF RecordIsProved
<1>10. PeersInv'
  <2>1. phase = "active" => /\ Conn \in live /\ clientRecord = NoRecord /\ serverRecord = NoRecord
    BY DEF FlowInv, PeersInv
  <2>2. Current(Its', Heard') /\ Sent(toServer', Heard')
    BY <1>3
  <2>3. Linked(toClient', Its', Heard', serverIndex', serverRecord')
    BY <1>2, <1>3
  <2>4. phase' = "active" =>
          /\ Conn \in live' /\ clientRecord' = NoRecord /\ serverRecord' = NoRecord /\ Unpaired(toClient')
          /\ ServerInv(server', serverIndex', Its', Heard', toServer', toClient')
    BY <1>1, <1>2, <1>3, <2>1
  <2> QED
    BY <2>2, <2>3, <2>4 DEF PeersInv
<1>11. RightOf(toClient', proved') /\ RightAt(server', proved')
  BY <1>2 DEF FlowInv
<1> QED
  BY <1>7, <1>8, <1>9, <1>10, <1>11 DEF FlowInv

\* What the client has heard by an activation that declares nothing, by a
\* re-handshake, or by a message it has no attempt for.
LEMMA LeavesClient ==
    ASSUME FlowInv, toClient # <<>>, toClient' = Tail(toClient), NEW after,
           Sends(Step(after, NoAttempt, shared, <<>>)), after \in {"continue", "close"},
           UNCHANGED <<pairingIndex, resuming, acts, clientRecord>>, Heard > 0, Conn \in live,
           \/ toClient[1] = Activate("none") /\ after = "continue"
           \/ toClient[1].type = "rehandshake"
           \/ /\ Its.state = "none" /\ after = "continue"
              /\ toClient[1].type \notin {"activate", "rehandshake"}
    PROVE  FlowInv'
<1> DEFINE step == Step(after, NoAttempt, shared, <<>>)
<1>1. /\ step.after = after /\ step.attempt = NoAttempt /\ step.shared = shared /\ step.out = <<>>
      /\ NoAttempt \in AttemptRecords /\ NoAttempt.state = "none" /\ Sends(step)
  BY DoneType DEF Step, NoAttempt
<1> HIDE DEF step
<1>2. toServer' = toServer
  <2>1. toServer' = toServer \o <<>>
    BY <1>1 DEF Sends
  <2> QED
    BY <2>1, FlowTypes, ConcatEmptySeq
<1>3. Current(NoAttempt, Heard)
  BY <1>1 DEF Current, Coherent
<1>4. /\ Tail(toClient) \in Seq(ServerSays) /\ toClient[1] \in ServerSays /\ ~IsActivation(toClient[1])
  BY FlowTypes, Shifted, Named DEF IsActivation, Activate
<1>5. Linked(toClient, Its, Heard, serverIndex, serverRecord) /\ RightOf(toClient, proved)
  BY DEF FlowInv, PeersInv
<1>6. Linked(Tail(toClient), NoAttempt, Heard, serverIndex, serverRecord)
  <2>1. Counted(Heard, Tail(toClient), serverIndex)
    <3>1. Cardinality(Activations(toClient)) = Cardinality(Activations(Tail(toClient))) + 0
      BY <1>4, FlowTypes, ActivationHeard
    <3>2. Cardinality(Activations(Tail(toClient))) \in Nat
      BY <1>4, Activating
    <3> QED
      BY <1>5, <3>1, <3>2 DEF Linked, Counted
  <2>2. Chained(Tail(toClient), NoAttempt, Heard)
    <3>1. \A m \in ServerSays : Follows(toClient[1], m) => Accepts(NoAttempt, m)
      BY <1>1 DEF Accepts
    <3>2. Heard \in Nat \ {0}
      BY FlowTypes
    <3> QED
      BY <1>5, <3>1, <3>2, FlowTypes, ChainHeard DEF Linked
  <2>3. FinalFirst(Tail(toClient), serverRecord, Heard)
    BY <1>5, FlowTypes, QueueHeard DEF Linked
  <2> QED
    BY <2>1, <2>2, <2>3 DEF Linked
<1>7. RightOf(Tail(toClient), proved)
  BY <1>5, FlowTypes, QueueHeard
<1>8. phase = "active" =>
        /\ after # "close" /\ Unpaired(Tail(toClient))
        /\ ServerInv(server, serverIndex, NoAttempt, Heard, toServer, Tail(toClient))
  <2> SUFFICES ASSUME phase = "active" PROVE
        /\ after # "close" /\ Unpaired(Tail(toClient))
        /\ ServerInv(server, serverIndex, NoAttempt, Heard, toServer, Tail(toClient))
    OBVIOUS
  <2>0. phase = "active"
    OBVIOUS
  <2>1. Unpaired(toClient) /\ Peers(server, serverIndex, Its, Heard, toServer, toClient)
    BY <2>0, ActivePeers
  <2>2. toClient[1].type # "rehandshake"
    BY <2>1, FlowTypes, Shifted DEF Unpaired
  <2>3. Unpaired(Tail(toClient))
    BY <2>1, FlowTypes, QueueHeard
  <2> QED
    BY <2>1, <2>2, <2>3, ClientLeaves
<1>9. /\ Heard' = Heard /\ pairingIndex' \in [Connections -> Nat] /\ resuming' \subseteq Connections
      /\ acts' \in Nat /\ clientRecord' = clientRecord
  BY FlowTypes DEF Heard
<1>10. /\ toServer' \in Seq(ClientSays) /\ Sent(toServer', Heard) /\ Heard \in Nat
       /\ toClient' \in Seq(ServerSays) /\ step.shared \in SharedStates
  BY <1>1, <1>2, <1>4, FlowTypes
<1> QED
  BY <1>1, <1>2, <1>3, <1>6, <1>7, <1>8, <1>9, <1>10, ClientKeeps

LEMMA Activated ==
    ASSUME NEW m \in ServerSays, m.type = "activate"
    PROVE  m = Activate(m.method) /\ m.method \in Methods \cup {"none"}
BY DEF ServerSays, Activate

\* The client hears an activation for pairing.
LEMMA ActivationKeeps ==
    ASSUME FlowInv, "psk" \notin Methods, toClient # <<>>, toClient' = Tail(toClient),
           NEW method \in Methods, toClient[1] = Activate(method),
           Sends(Start(method, pairingIndex[Conn] + 1, shared, Conn)),
           pairingIndex' = [pairingIndex EXCEPT ![Conn] = @ + 1],
           UNCHANGED <<resuming, acts, clientRecord>>
    PROVE  FlowInv'
<1>1. PICK now \in Nat : now = Heard + 1
  BY FlowTypes
<1>2. /\ pairingIndex[Conn] + 1 = now /\ now > 0 /\ Heard <= now /\ now # 0 /\ Heard \in Nat
      /\ method # "psk"
  BY <1>1, FlowTypes DEF Heard
<1>3. PICK step : step = Start(method, now, shared, Conn)
  OBVIOUS
<1>4. Sends(step) /\ Sound(step, Its, shared)
  BY <1>2, <1>3, FlowTypes, StartSound
<1>5. /\ step.after = "continue" /\ step.attempt.index = now /\ step.attempt.method = method
      /\ \/ step.attempt.state = "pending" /\ step.out = <<PairPending(now)>>
         \/ Opened(step.attempt) /\ step.out = <<PairInit(now, method)>>
  BY <1>2, <1>3, StartSays
<1>6. PICK m \in ClientSays :
        /\ step.out = <<m>>
        /\ m.type \in {"pending", "init"} => m.index <= now
        /\ \/ step.attempt.state = "pending" /\ m = PairPending(now)
           \/ Opened(step.attempt) /\ m = PairInit(now, method)
  <2>1. PairPending(now) \in ClientSays /\ PairInit(now, method) \in ClientSays
    BY ClientMessage
  <2>2. PairPending(now).index <= now /\ PairInit(now, method).index <= now
    BY DEF PairPending, PairInit
  <2> QED
    BY <1>5, <2>1, <2>2
<1>7. toServer' = Append(toServer, m)
  <2>1. toServer' = toServer \o <<m>>
    BY <1>4, <1>6 DEF Sends
  <2> QED
    BY <1>6, <2>1, FlowTypes, Concats
<1>8. /\ step.attempt \in AttemptRecords /\ step.shared \in SharedStates /\ Coherent(step.attempt)
  BY <1>4 DEF Sound
<1>9. Current(step.attempt, now) /\ step.attempt.state # "finalize"
  BY <1>2, <1>5, <1>8 DEF Current, Opened
<1>10. Append(toServer, m) \in Seq(ClientSays) /\ Sent(Append(toServer, m), now)
  <2>1. toServer \in Seq(ClientSays) /\ Sent(toServer, Heard)
    BY FlowTypes
  <2>2. Sent(Append(toServer, m), now)
    BY <1>2, <1>6, <2>1, SentMore
  <2> QED
    BY <2>1, <2>2, Appended
<1>11. /\ Tail(toClient) \in Seq(ServerSays) /\ toClient[1] \in ServerSays /\ method # "none"
       /\ toClient[1].type = "activate" /\ toClient[1].method = method
  BY FlowTypes, Shifted, Named DEF Activate
<1>12. ASSUME NEW record, Linked(toClient, Its, Heard, serverIndex, record)
       PROVE  Linked(Tail(toClient), step.attempt, now, serverIndex, record)
  <2>1. Counted(now, Tail(toClient), serverIndex)
    <3>1. Cardinality(Activations(toClient)) = Cardinality(Activations(Tail(toClient))) + 1
      BY <1>11, FlowTypes, ActivationHeard DEF IsActivation
    <3>2. Cardinality(Activations(Tail(toClient))) \in Nat
      BY <1>11, Activating
    <3>3. Heard + Cardinality(Activations(toClient)) = serverIndex
      BY <1>12 DEF Linked, Counted
    <3>4. now + Cardinality(Activations(Tail(toClient))) = serverIndex
      BY <1>1, <1>2, <3>1, <3>2, <3>3
    <3> QED
      BY <3>4 DEF Counted
  <2>2. Chained(Tail(toClient), step.attempt, now)
    <3>1. \A n \in ServerSays : Follows(toClient[1], n) => Accepts(step.attempt, n)
      BY <1>11 DEF Accepts, Follows
    <3>2. now \in Nat \ {0} /\ Chained(toClient, Its, Heard)
      BY <1>2, <1>12 DEF Linked
    <3> QED
      BY <3>1, <3>2, FlowTypes, ChainHeard
  <2>3. FinalFirst(Tail(toClient), record, now)
    BY <1>12, FlowTypes, QueueHeard DEF Linked
  <2> QED
    BY <2>1, <2>2, <2>3 DEF Linked
<1>13. RightOf(Tail(toClient), proved)
  BY FlowTypes, QueueHeard DEF FlowInv
<1>14. Linked(Tail(toClient), step.attempt, now, serverIndex, serverRecord)
  BY <1>4, <1>12 DEF FlowInv, PeersInv, Sends, Takes
<1>15. phase = "active" =>
         /\ Unpaired(Tail(toClient))
         /\ ServerInv(server, serverIndex, step.attempt, now, Append(toServer, m), Tail(toClient))
  <2> SUFFICES ASSUME phase = "active" PROVE
         /\ Unpaired(Tail(toClient))
         /\ ServerInv(server, serverIndex, step.attempt, now, Append(toServer, m), Tail(toClient))
    OBVIOUS
  <2>0. phase = "active"
    OBVIOUS
  <2>1. Unpaired(toClient) /\ Peers(server, serverIndex, Its, Heard, toServer, toClient)
    BY <2>0, ActivePeers
  <2>2. Unpaired(Tail(toClient))
    BY <2>1, FlowTypes, QueueHeard
  <2>3. ServerInv(server, serverIndex, step.attempt, Heard + 1, Append(toServer, m), Tail(toClient))
    BY <1>1, <1>2, <1>5, <1>6, <2>1, ClientStarts
  <2> QED
    BY <1>1, <2>2, <2>3
<1>16. Heard' = now /\ pairingIndex' \in [Connections -> Nat]
  BY <1>2, FlowTypes DEF Heard
<1>17. resuming' \subseteq Connections /\ acts' \in Nat /\ clientRecord' = clientRecord
  BY FlowTypes
<1> QED
  BY <1>4, <1>5, <1>7, <1>8, <1>9, <1>10, <1>11, <1>13, <1>14, <1>15, <1>16, <1>17, ClientKeeps

LEMMA OutcomeSent ==
    ASSUME NEW a \in AttemptRecords, NEW m, NEW after, NEW out, Outcome(a, m, after, out),
           NEW heard \in Nat, heard > 0, NEW ts \in Seq(ClientSays), Sent(ts, heard)
    PROVE  ts \o out \in Seq(ClientSays) /\ Sent(ts \o out, heard)
<1>1. CASE out = <<>>
  BY <1>1, ConcatEmptySeq
<1>2. ASSUME NEW x \in ClientSays, out = <<x>>, x.type \notin {"pending", "init"}
      PROVE  ts \o out \in Seq(ClientSays) /\ Sent(ts \o out, heard)
  <2>1. ts \o out = Append(ts, x)
    BY <1>2, Concats
  <2>2. Append(ts, x) \in Seq(ClientSays)
    BY Appended
  <2>3. Sent(Append(ts, x), heard)
    BY <1>2, SentMore
  <2> QED
    BY <2>1, <2>2, <2>3
<1>3. ASSUME NEW x \in ClientSays, NEW y \in ClientSays, out = <<x, y>>,
             x.type \notin {"pending", "init"}, y.type \notin {"pending", "init"}
      PROVE  ts \o out \in Seq(ClientSays) /\ Sent(ts \o out, heard)
  <2>1. ts \o out = Append(Append(ts, x), y)
    BY <1>3, Concats
  <2>2. Append(ts, x) \in Seq(ClientSays) /\ Sent(Append(ts, x), heard)
    BY <1>3, Appended, SentMore
  <2>3. PICK q \in Seq(ClientSays) : q = Append(ts, x) /\ Sent(q, heard)
    BY <2>2
  <2>4. Append(q, y) \in Seq(ClientSays)
    BY <2>3, Appended
  <2>5. Sent(Append(q, y), heard)
    <3>1. heard <= heard /\ (y.type \in {"pending", "init"} => y.index <= heard)
      BY <1>3
    <3> QED
      BY <2>3, <3>1, SentMore
  <2> QED
    BY <2>1, <2>3, <2>4, <2>5
<1>4. Sid(a) \in Nat \X Nat /\ a.index \in Nat
  BY DEF AttemptRecords, Sid
<1>5. \/ out = <<>> \/ out = <<PairAbort("mismatch")>> \/ out = <<PairAuth(Sid(a))>> \/ out = <<PairRetry>>
      \/ out = <<PairConfirm(Sid(a)), PairFinalize(a.index, Sid(a))>>
  BY DEF Outcome
<1>6. /\ PairAbort("mismatch") \in ClientSays /\ PairAuth(Sid(a)) \in ClientSays /\ PairRetry \in ClientSays
      /\ PairConfirm(Sid(a)) \in ClientSays /\ PairFinalize(a.index, Sid(a)) \in ClientSays
  BY <1>4, ClientMessage DEF Reasons
<1>7. /\ PairAbort("mismatch").type = "abort" /\ PairAuth(Sid(a)).type = "auth" /\ PairRetry.type = "retry"
      /\ PairConfirm(Sid(a)).type = "confirm" /\ PairFinalize(a.index, Sid(a)).type = "finalize"
  BY DEF PairAbort, PairAuth, PairRetry, PairConfirm, PairFinalize
<1>8. CASE out = <<PairAbort("mismatch")>>
  BY <1>2, <1>6, <1>7, <1>8
<1>9. CASE out = <<PairAuth(Sid(a))>>
  BY <1>2, <1>6, <1>7, <1>9
<1>10. CASE out = <<PairRetry>>
  BY <1>2, <1>6, <1>7, <1>10
<1>11. CASE out = <<PairConfirm(Sid(a)), PairFinalize(a.index, Sid(a))>>
  BY <1>3, <1>6, <1>7, <1>11
<1> QED
  BY <1>1, <1>5, <1>8, <1>9, <1>10, <1>11

\* The client hears a message of an attempt.
LEMMA MessageKeeps ==
    ASSUME FlowInv, toClient # <<>>, toClient' = Tail(toClient), NEW m \in ServerSays, m = toClient[1],
           m.type \notin {"activate", "rehandshake"}, Its.state # "none",
           NEW step, step = Receive(Its, shared, m), Sends(step),
           clientRecord' = IF Its.state = "finalize" /\ m.type = "finalize" THEN Its.index ELSE clientRecord,
           UNCHANGED <<pairingIndex, resuming, acts>>
    PROVE  FlowInv'
<1> USE FlowTypes
<1>1. Linked(toClient, Its, Heard, serverIndex, serverRecord) /\ RightOf(toClient, proved)
  BY DEF FlowInv, PeersInv, Sends, Takes
<1>2. Accepts(Its, m) /\ Heard > 0 /\ 1 \in 1..Len(toClient) /\ ~IsActivation(m) /\ Heard \in Nat \ {0}
  <2>1. Accepts(Its, m) /\ (Heard = 0 => IsActivation(m))
    BY <1>1 DEF Linked, Chained
  <2>2. ~IsActivation(m)
    BY DEF IsActivation
  <2>3. 1 \in 1..Len(toClient)
    BY Shifted
  <2> QED
    BY <2>1, <2>2, <2>3
<1>3. PICK after, out : after = step.attempt /\ out = step.out
  OBVIOUS
<1>4. step.after \notin {"close", "error"} /\ Outcome(Its, m, after, out)
  BY <1>2, <1>3, ReceiveSays
<1>5. Sound(step, Its, shared)
  <2>1. m.type = "auth" => m.entry \in [sid : Nat \X Nat, code : {"right", "wrong"}]
    BY ServerKinds DEF Entry
  <2> QED
    BY <2>1, ReceiveSound DEF Current
<1>6. after \in AttemptRecords /\ step.shared \in SharedStates /\ Coherent(after)
  BY <1>3, <1>5 DEF Sound
<1>7. Current(after, Heard)
  <2>1. \/ after.state = "done"
        \/ after.method = Its.method /\ after.index = Its.index /\ Its.state \notin {"none", "done"}
    BY <1>4 DEF Outcome
  <2> QED
    BY <1>6, <2>1 DEF Current
<1>8. after.state = "finalize" => after.index \in proved
  <2> SUFFICES ASSUME after.state = "finalize" PROVE after.index \in proved
    OBVIOUS
  <2>1. m.type = "confirm" /\ Verifies(Its, m) /\ after.index = Its.index
    BY <1>4 DEF Outcome
  <2>2. m.entry.code = "right" /\ m.entry.sid[1] = Its.index
    BY <2>1 DEF Verifies, Sid
  <2>3. m.entry.sid[1] \in proved
    BY <1>1, <1>2, <2>1, <2>2 DEF RightOf
  <2> QED
    BY <2>1, <2>2, <2>3
<1>9. toServer \o out \in Seq(ClientSays) /\ Sent(toServer \o out, Heard)
  BY <1>2, <1>4, OutcomeSent
<1>10. Tail(toClient) \in Seq(ServerSays) /\ RightOf(Tail(toClient), proved)
  BY <1>1, Shifted, QueueHeard
<1>11. Linked(Tail(toClient), after, Heard, serverIndex, serverRecord)
  <2>1. Counted(Heard, Tail(toClient), serverIndex)
    <3>1. Cardinality(Activations(toClient)) = Cardinality(Activations(Tail(toClient))) + 0
      BY <1>2, ActivationHeard
    <3>2. Cardinality(Activations(Tail(toClient))) \in Nat
      BY <1>10, Activating
    <3> QED
      BY <1>1, <3>1, <3>2 DEF Linked, Counted
  <2>2. Chained(Tail(toClient), after, Heard)
    <3>1. \A n \in ServerSays : Follows(toClient[1], n) => Accepts(after, n)
      BY <1>4, OutcomeAccepts
    <3> QED
      BY <1>1, <1>2, <3>1, ChainHeard DEF Linked
  <2>3. FinalFirst(Tail(toClient), serverRecord, Heard)
    BY <1>1, QueueHeard DEF Linked
  <2> QED
    BY <2>1, <2>2, <2>3 DEF Linked
<1>12. clientRecord' \in {clientRecord, serverRecord}
  <2>1. CASE Its.state = "finalize" /\ m.type = "finalize"
    <3>1. serverRecord = Heard
      BY <1>1, <1>2, <2>1 DEF Linked, FinalFirst
    <3>2. Its.index = Heard
      BY <2>1 DEF Current
    <3> QED
      BY <2>1, <3>1, <3>2
  <2>2. CASE ~(Its.state = "finalize" /\ m.type = "finalize")
    BY <2>2
  <2> QED
    BY <2>1, <2>2
<1>13. phase = "active" =>
         /\ clientRecord' = clientRecord /\ Unpaired(Tail(toClient))
         /\ ServerInv(server, serverIndex, after, Heard, toServer \o out, Tail(toClient))
  <2> SUFFICES ASSUME phase = "active" PROVE
         /\ clientRecord' = clientRecord /\ Unpaired(Tail(toClient))
         /\ ServerInv(server, serverIndex, after, Heard, toServer \o out, Tail(toClient))
    OBVIOUS
  <2>0. phase = "active"
    OBVIOUS
  <2>1. Unpaired(toClient) /\ Peers(server, serverIndex, Its, Heard, toServer, toClient)
    BY <2>0, ActivePeers
  <2>2. m.type # "finalize"
    BY <1>2, <2>1 DEF Unpaired
  <2>3. Unpaired(Tail(toClient))
    BY <2>1, QueueHeard
  <2>4. ServerInv(server, serverIndex, after, Heard, toServer \o out, Tail(toClient))
    BY <1>2, <1>4, <1>9, <2>1, <2>2, ClientHears
  <2> QED
    BY <2>2, <2>3, <2>4
<1>14. toServer' = toServer \o out
  BY <1>3 DEF Sends
<1>15. /\ Heard' = Heard /\ pairingIndex' \in [Connections -> Nat] /\ resuming' \subseteq Connections
       /\ acts' \in Nat
  BY DEF Heard
<1> QED
  BY <1>3, <1>4, <1>6, <1>7, <1>8, <1>9, <1>10, <1>11, <1>12, <1>13, <1>14, <1>15, ClientKeeps

LEMMA ClientReceivesKeeps ==
    ASSUME FlowInv, "psk" \notin Methods, ClientReceives
    PROVE  FlowInv'
<1>1. /\ toClient # <<>> /\ toClient' = Tail(toClient) /\ toClient \in Seq(ServerSays)
      /\ Head(toClient) = toClient[1]
  BY FlowTypes, Shifted DEF ClientReceives
<1>2. PICK m \in ServerSays : m = toClient[1] /\ Hears(m)
  BY <1>1, Shifted DEF ClientReceives
<1>3. Conn \in live
  BY <1>2 DEF Hears, Sends, Takes
<1>4. Heard = 0 => IsActivation(m)
  BY <1>1, <1>2, <1>3 DEF FlowInv, PeersInv, Linked, Chained
<1>5. Heard \in Nat
  BY FlowTypes
<1>6. CASE m.type = "activate" /\ m.method = "none"
  <2>1. /\ Sends(Step("continue", NoAttempt, shared, <<>>))
        /\ UNCHANGED <<pairingIndex, resuming, acts, clientRecord>>
    BY <1>2, <1>6 DEF Hears
  <2>2. toClient[1] = Activate("none") /\ Heard > 0
    BY <1>2, <1>4, <1>5, <1>6, Activated DEF IsActivation
  <2> QED
    BY <1>1, <1>3, <2>1, <2>2, LeavesClient
<1>7. CASE m.type = "activate" /\ m.method # "none"
  <2>1. /\ Sends(Start(m.method, pairingIndex[Conn] + 1, shared, Conn))
        /\ pairingIndex' = [pairingIndex EXCEPT ![Conn] = @ + 1]
        /\ UNCHANGED <<resuming, acts, clientRecord>>
    BY <1>2, <1>7 DEF Hears
  <2>2. m.method \in Methods /\ toClient[1] = Activate(m.method)
    BY <1>2, <1>7, Activated
  <2> QED
    BY <1>1, <2>1, <2>2, ActivationKeeps
<1>8. CASE m.type = "rehandshake"
  <2>1. PICK after : after = IF m.psk = clientRecord THEN "continue" ELSE "close"
    OBVIOUS
  <2>2. /\ Sends(Step(after, NoAttempt, shared, <<>>)) /\ after \in {"continue", "close"}
        /\ UNCHANGED <<pairingIndex, resuming, acts, clientRecord>>
    BY <1>2, <1>8, <2>1 DEF Hears
  <2>3. toClient[1].type = "rehandshake" /\ Heard > 0
    BY <1>2, <1>4, <1>5, <1>8 DEF IsActivation
  <2> QED
    BY <1>1, <1>3, <2>2, <2>3, LeavesClient
<1>9. CASE m.type \notin {"activate", "rehandshake"}
  <2>1. Heard > 0
    BY <1>4, <1>5, <1>9 DEF IsActivation
  <2>2. /\ Sends(IF Its.state = "none" THEN Step("continue", NoAttempt, shared, <<>>)
                 ELSE Receive(Its, shared, m))
        /\ clientRecord' = IF Its.state = "finalize" /\ m.type = "finalize" THEN Its.index ELSE clientRecord
        /\ UNCHANGED <<pairingIndex, resuming, acts>>
    BY <1>2, <1>9, <2>1 DEF Hears, Its, Heard
  <2>3. CASE Its.state = "none"
    <3>1. Sends(Step("continue", NoAttempt, shared, <<>>)) /\ clientRecord' = clientRecord
      BY <2>2, <2>3
    <3> QED
      BY <1>1, <1>2, <1>3, <1>9, <2>1, <2>2, <2>3, <3>1, LeavesClient
  <2>4. CASE Its.state # "none"
    <3>1. PICK step : step = Receive(Its, shared, m)
      OBVIOUS
    <3>2. Sends(step)
      BY <2>2, <2>4, <3>1
    <3> QED
      BY <1>1, <1>2, <1>9, <2>2, <2>4, <3>1, <3>2, MessageKeeps
  <2> QED
    BY <2>3, <2>4
<1> QED
  BY <1>6, <1>7, <1>8, <1>9

----------------------------------------------------------------------------
(* What the client does of its own accord, and the connection's end.       *)

\* What a connection still waits for does not depend on what comes next for it
\* by its own step, as long as it accepts what is first on its way.
LEMMA SameQueue ==
    ASSUME NEW q, NEW a, NEW heard, NEW index, NEW record, Linked(q, a, heard, index, record), NEW after,
           q # <<>> => Accepts(after, q[1])
    PROVE  Linked(q, after, heard, index, record)
BY DEF Linked, Chained

\* The attempt ends with an abort.
LEMMA AbortKeeps ==
    ASSUME FlowInv, NEW why \in Reasons, Its.state \notin {"none", "done"}, Heard > 0,
           Sends(Abort(Its, shared, why)),
           UNCHANGED <<toClient, clientRecord, pairingIndex, resuming, acts>>
    PROVE  FlowInv'
<1> USE FlowTypes
<1>1. PICK step : step = Abort(Its, shared, why)
  OBVIOUS
<1>2. /\ Sends(step) /\ step.after = "ended" /\ step.attempt.state = "done" /\ step.out = <<PairAbort(why)>>
      /\ PairAbort(why) \in ClientSays /\ PairAbort(why).type = "abort"
  BY <1>1, ClientMessage DEF Abort, Step, Done, NoAttempt, Reasons, PairAbort
<1>3. Sound(step, Its, shared)
  BY <1>1, EndsSound
<1>4. step.attempt \in AttemptRecords /\ step.shared \in SharedStates /\ Current(step.attempt, Heard)
  BY <1>2, <1>3 DEF Sound, Current
<1>5. toServer' = Append(toServer, PairAbort(why))
  <2>1. toServer' = toServer \o <<PairAbort(why)>>
    BY <1>2 DEF Sends
  <2> QED
    BY <1>2, <2>1, Concats
<1>6. toServer' \in Seq(ClientSays)
  BY <1>2, <1>5, Appended
<1>7. Sent(toServer', Heard)
  BY <1>2, <1>5, SentMore
<1>8. Linked(toClient, Its, Heard, serverIndex, serverRecord) /\ RightOf(toClient, proved)
  BY <1>2 DEF FlowInv, PeersInv, Sends, Takes
<1>9. Linked(toClient, step.attempt, Heard, serverIndex, serverRecord)
  <2>1. toClient # <<>> => Accepts(step.attempt, toClient[1])
    BY <1>2 DEF Accepts
  <2> QED
    BY <1>8, <2>1, SameQueue
<1>10. phase = "active" =>
         /\ Unpaired(toClient) /\ ServerInv(server, serverIndex, step.attempt, Heard, toServer', toClient)
  BY <1>2, <1>5, ActivePeers, ClientEnds
<1>11. /\ Heard' = Heard /\ pairingIndex' \in [Connections -> Nat] /\ resuming' \subseteq Connections
       /\ acts' \in Nat /\ clientRecord' = clientRecord /\ toClient' = toClient
  BY DEF Heard
<1>12. RightOf(toClient', proved) /\ toClient' \in Seq(ServerSays)
  BY <1>8, <1>11
<1> QED
  BY <1>2, <1>4, <1>6, <1>7, <1>9, <1>10, <1>11, <1>12, ClientKeeps

\* An attempt held back is resumed.
LEMMA ResumeKeeps ==
    ASSUME FlowInv, Resumes(Conn), Sends(Resume(Its, shared, Conn)), UNCHANGED <<toClient, clientRecord>>
    PROVE  FlowInv'
<1> USE FlowTypes
<1>1. PICK step : step = Resume(Its, shared, Conn)
  OBVIOUS
<1>2. Sends(step) /\ step.after = "continue"
  BY <1>1, ResumeSays
<1>3. \/ step.attempt = Its /\ step.out = <<>>
      \/ /\ Its.state = "pending" /\ Opened(step.attempt) /\ step.out = <<PairInit(Its.index, Its.method)>>
         /\ step.attempt.index = Its.index /\ step.attempt.method = Its.method
  BY <1>1, ResumeSays
<1>4. Sound(step, Its, shared)
  BY <1>1, ResumeSound DEF Current
<1>5. step.attempt \in AttemptRecords /\ step.shared \in SharedStates /\ Coherent(step.attempt)
  BY <1>4 DEF Sound
<1>6. Current(step.attempt, Heard)
  BY <1>3, <1>5 DEF Current
<1>7. Linked(toClient, Its, Heard, serverIndex, serverRecord) /\ RightOf(toClient, proved)
  BY <1>2 DEF FlowInv, PeersInv, Sends, Takes
<1>8. /\ Heard' = Heard /\ pairingIndex' \in [Connections -> Nat] /\ resuming' \subseteq Connections
      /\ acts' \in Nat /\ clientRecord' = clientRecord /\ toClient' = toClient
  BY DEF Heard, Resumes
<1>9. RightOf(toClient', proved) /\ toClient' \in Seq(ServerSays)
  BY <1>7, <1>8
<1>10. phase = "active" =>
         /\ Unpaired(toClient) /\ Peers(server, serverIndex, Its, Heard, toServer, toClient)
  BY ActivePeers
<1>11. toServer' = toServer \o step.out
  BY <1>2 DEF Sends
<1>12. CASE step.attempt = Its /\ step.out = <<>>
  <2>1. toServer' = toServer
    BY <1>11, <1>12, ConcatEmptySeq
  <2>2. Its.state = "finalize" => Its.index \in proved
    BY DEF FlowInv, RecordIsProved, Its
  <2>3. phase = "active" => ServerInv(server, serverIndex, step.attempt, Heard, toServer', toClient)
    BY <1>10, <1>12, <2>1 DEF Peers
  <2> QED
    BY <1>2, <1>5, <1>6, <1>7, <1>8, <1>9, <1>10, <1>12, <2>1, <2>2, <2>3, ClientKeeps
<1>13. CASE /\ Its.state = "pending" /\ Opened(step.attempt) /\ step.out = <<PairInit(Its.index, Its.method)>>
            /\ step.attempt.index = Its.index /\ step.attempt.method = Its.method
  <2>1. Its.index = Heard /\ Heard > 0 /\ Heard \in Nat
    BY <1>13 DEF Current
  <2>2. PICK m \in ClientSays : m = PairInit(Heard, Its.method) /\ m.index = Heard
    BY <2>1, ClientMessage DEF PairInit
  <2>3. toServer' = Append(toServer, m)
    BY <1>11, <1>13, <2>1, <2>2, Concats
  <2>4. toServer' \in Seq(ClientSays)
    BY <2>3, Appended
  <2>5. Sent(toServer', Heard)
    <3>1. Heard <= Heard /\ (m.type \in {"pending", "init"} => m.index <= Heard)
      BY <2>1, <2>2
    <3> QED
      BY <2>1, <2>3, <3>1, SentMore
  <2>6. Linked(toClient, step.attempt, Heard, serverIndex, serverRecord)
    <3>1. toClient # <<>> => Accepts(step.attempt, toClient[1])
      <4>1. toClient # <<>> => Accepts(Its, toClient[1])
        BY <1>7 DEF Linked, Chained
      <4> QED
        BY <1>13, <4>1 DEF Accepts
    <3> QED
      BY <1>7, <3>1, SameQueue
  <2>7. phase = "active" => ServerInv(server, serverIndex, step.attempt, Heard, toServer', toClient)
    BY <1>10, <1>13, <2>2, <2>3, ClientResumes
  <2>8. step.attempt.state # "finalize"
    BY <1>13 DEF Opened
  <2> QED
    BY <1>2, <1>5, <1>6, <1>8, <1>9, <1>10, <2>1, <2>4, <2>5, <2>6, <2>7, <2>8, ClientKeeps
<1> QED
  BY <1>3, <1>12, <1>13

LEMMA ClientActsKeeps ==
    ASSUME FlowInv, ClientActs
    PROVE  FlowInv'
<1> USE FlowTypes
<1>1. UNCHANGED <<toClient, clientRecord>>
  BY DEF ClientActs
<1>2. CASE Resumes(Conn) /\ Sends(Resume(attempt[Conn], shared, Conn))
  BY <1>1, <1>2, ResumeKeeps DEF Its
<1>3. Its.state \notin {"none", "done"} => Heard > 0
  BY DEF Current
<1>4. CASE Cancels(Conn) /\ Sends(Cancel(attempt[Conn], shared))
  <2>1. UNCHANGED <<pairingIndex, resuming, acts>> /\ Sends(Cancel(Its, shared))
    BY <1>4 DEF Cancels, Its
  <2>2. CASE Its.state \notin {"none", "done"}
    <3>1. Sends(Abort(Its, shared, "cancelled")) /\ "cancelled" \in Reasons
      BY <2>1, <2>2 DEF Cancel, Reasons
    <3> QED
      BY <1>1, <1>3, <2>1, <2>2, <3>1, AbortKeeps
  <2>3. CASE Its.state \in {"none", "done"}
    <3>1. PICK step : step = Step("continue", Its, shared, <<>>)
      OBVIOUS
    <3>2. /\ Sends(step) /\ step.after = "continue" /\ step.attempt = Its /\ step.shared = shared
          /\ step.out = <<>>
      BY <2>1, <2>3, <3>1 DEF Cancel, Step
    <3>3. toServer' = toServer
      <4>1. toServer' = toServer \o <<>>
        BY <3>2 DEF Sends
      <4> QED
        BY <4>1, ConcatEmptySeq
    <3>4. Linked(toClient, Its, Heard, serverIndex, serverRecord) /\ RightOf(toClient, proved)
      BY <3>2 DEF FlowInv, PeersInv, Sends, Takes
    <3>5. phase = "active" =>
            /\ Unpaired(toClient) /\ ServerInv(server, serverIndex, Its, Heard, toServer, toClient)
      BY ActivePeers DEF Peers
    <3>6. /\ Heard' = Heard /\ pairingIndex' \in [Connections -> Nat] /\ resuming' \subseteq Connections
          /\ acts' \in Nat /\ clientRecord' = clientRecord /\ toClient' = toClient
      BY <1>1, <2>1 DEF Heard
    <3> QED
      BY <2>3, <3>2, <3>3, <3>4, <3>5, <3>6, ClientKeeps
  <2> QED
    BY <2>2, <2>3
<1>5. CASE TimesOut(Conn) /\ Sends(Abort(attempt[Conn], shared, "timeout"))
  <2>1. /\ UNCHANGED <<pairingIndex, resuming, acts>> /\ Sends(Abort(Its, shared, "timeout"))
        /\ Its.state \notin {"none", "done"} /\ "timeout" \in Reasons
    BY <1>5 DEF TimesOut, Its, InProgress, Reasons
  <2> QED
    BY <1>1, <1>3, <2>1, AbortKeeps
<1> QED
  BY <1>2, <1>4, <1>5 DEF ClientActs

\* The client's operator touches no attempt.
LEMMA OperatorOfClientKeeps ==
    ASSUME FlowInv, OperatorOfClient
    PROVE  FlowInv'
<1>1. /\ OpensWindow \/ ResetsRounds \/ WindowExpires
      /\ server' = server /\ phase' = phase /\ serverIndex' = serverIndex /\ serverRecord' = serverRecord
      /\ toServer' = toServer /\ toClient' = toClient /\ clientRecord' = clientRecord /\ proved' = proved
      /\ errors' = errors
  BY DEF OperatorOfClient, serverVars, links
<1>2. /\ attempt' = attempt /\ pairingIndex' = pairingIndex /\ live' = live
      /\ acts' \in Nat /\ resuming' \subseteq Connections
  BY <1>1, FlowTypes DEF OpensWindow, ResetsRounds, WindowExpires, OperatorActs
<1>3. shared' \in SharedStates
  <2>1. \/ shared' = [shared EXCEPT !.open = TRUE, !.failures = 0, !.boundTo = Nobody]
        \/ shared' = [shared EXCEPT !.rounds = 0]
        \/ shared' = [shared EXCEPT !.open = FALSE]
    BY <1>1 DEF OpensWindow, ResetsRounds, WindowExpires, OperatorActs
  <2>2. shared \in SharedStates
    BY FlowTypes
  <2>3. ASSUME NEW sh \in SharedStates
        PROVE  /\ [sh EXCEPT !.open = TRUE, !.failures = 0, !.boundTo = Nobody] \in SharedStates
               /\ [sh EXCEPT !.rounds = 0] \in SharedStates
               /\ [sh EXCEPT !.open = FALSE] \in SharedStates
    BY DEF SharedStates
  <2> QED
    BY <2>1, <2>2, <2>3
<1>4. FlowTypeOK'
  <2>1. ClientTypeOK'
    BY <1>2, <1>3, FlowTypes DEF ClientTypeOK, SharedStates
  <2> QED
    BY <1>1, <2>1 DEF FlowTypeOK, FlowInv
<1>5. NoProtocolError' /\ RecordsAgree' /\ RecordIsProved'
  BY <1>1, <1>2 DEF NoProtocolError, RecordsAgree, RecordIsProved, FlowInv
<1>6. Its' = Its /\ Heard' = Heard
  BY <1>2 DEF Its, Heard
<1>7. PeersInv'
  BY <1>1, <1>2, <1>6 DEF PeersInv, FlowInv
<1> QED
  BY <1>1, <1>4, <1>5, <1>7 DEF FlowInv

LEMMA LinkLostKeeps ==
    ASSUME FlowInv, LinkLost
    PROVE  FlowInv'
<1>1. /\ live' = {} /\ phase' = "closed" /\ toServer' = <<>> /\ toClient' = <<>>
      /\ attempt' = [attempt EXCEPT ![Conn] = NoAttempt] /\ server' = NoServerAttempt
      /\ shared' = Dropped(shared, Conn)
      /\ pairingIndex' = pairingIndex /\ resuming' = resuming /\ acts' = acts /\ serverIndex' = serverIndex
      /\ serverRecord' = serverRecord /\ clientRecord' = clientRecord /\ proved' = proved /\ errors' = errors
  BY DEF LinkLost
<1>2. attempt' \in [Connections -> AttemptRecords] /\ attempt'[Conn] = NoAttempt
  BY <1>1, FlowTypes, DoneType
<1>3. shared' \in SharedStates
  BY <1>1, FlowTypes DEF Dropped, CloseWindow, SharedStates
<1>4. server' \in ServerAttempts /\ server'.state = "none" /\ NoAttempt.state = "none"
  BY <1>1, ServerType DEF NoAttempt
<1>5. FlowTypeOK'
  <2>1. ClientTypeOK'
    BY <1>1, <1>2, <1>3, FlowTypes DEF ClientTypeOK, SharedStates
  <2> QED
    BY <1>1, <1>4, <2>1 DEF FlowTypeOK, FlowInv
<1>6. NoProtocolError' /\ RecordsAgree'
  BY <1>1 DEF NoProtocolError, RecordsAgree, FlowInv
<1>7. RecordIsProved'
  BY <1>1, <1>2, <1>4 DEF RecordIsProved, FlowInv
<1>8. PeersInv'
  <2>1. Current(Its', Heard')
    BY <1>2, <1>4 DEF Current, Coherent, Its
  <2>2. Sent(toServer', Heard')
    BY <1>1, SentNone
  <2> QED
    BY <1>1, <2>1, <2>2 DEF PeersInv
<1>9. toServer' \in Seq(ClientSays) /\ toClient' \in Seq(ServerSays)
  BY <1>1
<1>10. RightOf(toClient', proved') /\ RightAt(server', proved')
  BY <1>1, <1>4 DEF RightOf, RightAt
<1> QED
  BY <1>5, <1>6, <1>7, <1>8, <1>9, <1>10 DEF FlowInv

LEMMA FlowNextKeeps ==
    ASSUME FlowInv, "psk" \notin Methods, [FlowNext]_flowVars
    PROVE  FlowInv'
<1>1. ASSUME NEW method \in Methods, ServerActivates(method) PROVE FlowInv'
  BY <1>1, ServerActivatesKeeps
<1>2. ASSUME NEW code \in {"right", "wrong"}, EnterCode(code) PROVE FlowInv'
  BY <1>2, EnterCodeKeeps
<1>3. CASE ServerCancels
  <2>1. PICK out \in {<<>>, <<PairAbort("cancelled")>>} : Leaves(out)
    BY <1>3 DEF ServerCancels
  <2> QED
    BY <1>3, <2>1, LeavesKeeps DEF ServerCancels
<1>4. CASE ServerTimesOut
  BY <1>4, LeavesKeeps DEF ServerTimesOut, Running
<1>5. CASE ServerReceives
  BY <1>5, ServerReceivesKeeps
<1>6. CASE ClientReceives
  BY <1>6, ClientReceivesKeeps
<1>7. CASE ClientActs
  BY <1>7, ClientActsKeeps
<1>8. CASE OperatorOfClient
  BY <1>8, OperatorOfClientKeeps
<1>9. CASE LinkLost
  BY <1>9, LinkLostKeeps
<1>10. CASE UNCHANGED flowVars
  BY <1>10 DEF flowVars, clientVars, serverVars, links, FlowInv, FlowTypeOK, ClientTypeOK, NoProtocolError,
     RecordsAgree, RecordIsProved, PeersInv, Its, Heard
<1> QED
  BY <1>1, <1>2, <1>3, <1>4, <1>5, <1>6, <1>7, <1>8, <1>9, <1>10 DEF FlowNext

LEMMA FlowAlways ==
    ASSUME "psk" \notin Methods
    PROVE  FlowSpec => []FlowInv
<1>1. FlowInit => FlowInv
  BY FlowInitInv
<1>2. FlowInv /\ [FlowNext]_flowVars => FlowInv'
  BY FlowNextKeeps
<1> QED
  BY <1>1, <1>2, PTL DEF FlowSpec

\* Between a client and a server that pair by code, both sides' attempts, what
\* each has persisted and the history stay well formed.
THEOREM FlowTypeCorrect ==
    ASSUME "psk" \notin Methods
    PROVE  FlowSpec => []FlowTypeOK
<1>1. FlowInv => FlowTypeOK
  BY DEF FlowInv
<1> QED
  BY <1>1, FlowAlways, PTL

\* Whatever activations, cancellations, timeouts and losses cross in flight,
\* the client persists a record only when the server has persisted the same.
THEOREM RecordsAlwaysAgree ==
    ASSUME "psk" \notin Methods
    PROVE  FlowSpec => []RecordsAgree
<1>1. FlowInv => RecordsAgree
  BY DEF FlowInv
<1> QED
  BY <1>1, FlowAlways, PTL

\* No proof, record or round of one attempt serves another: the PSK leaves the
\* client, and either side keeps it, only where the right code was entered.
THEOREM RecordsAreProved ==
    ASSUME "psk" \notin Methods
    PROVE  FlowSpec => []RecordIsProved
<1>1. FlowInv => RecordIsProved
  BY DEF FlowInv
<1> QED
  BY <1>1, FlowAlways, PTL

\* However the attempts of two conforming peers overlap, neither ever closes on
\* the other for a protocol error.
THEOREM NeverAProtocolError ==
    ASSUME "psk" \notin Methods
    PROVE  FlowSpec => []NoProtocolError
<1>1. FlowInv => NoProtocolError
  BY DEF FlowInv
<1> QED
  BY <1>1, FlowAlways, PTL
=============================================================================
