-------------------------- MODULE BoardHostProofs --------------------------
(***************************************************************************)
(* The board's sessions, arbiter and flash agree, for any number of        *)
(* connections and servers, with the operator's task at every lock and     *)
(* power loss at every step.                                               *)
(***************************************************************************)
EXTENDS BoardHost, AdmissionProofs

\* LastsAgree, with what a handler between its two locks is about to store.
LastFollows ==
    /\ LastsAgree
    /\ task.at = "writeLast" => arbiter.lastPlayback \in {NoServer, task.last}

\* ForgottenLeaves, with the handshake that has matched a record and not yet
\* entered its connection.
Rests ==
    operator = Idle /\ ~prune =>
        /\ \A c \in longTerm :
              ServerOf[c] \in records \cup unpaired \/ session[c].phase = "closed"
        /\ task.at = "establish" /\ task.matched => ServerOf[task.id] \in records \cup unpaired

StoreTypes ==
    /\ records \subseteq Servers /\ stored \in Servers \cup {NoServer}
    /\ longTerm \subseteq Connections
    /\ task \in Tasks /\ operator \in Operators /\ prune \in BOOLEAN
    /\ unpaired \subseteq Servers

KnownPresent ==
    /\ \A c \in longTerm : Present(c)
    /\ task.at = "establish" => Present(task.id)

BoardInv ==
    /\ AdmissionInv /\ ActiveIsHeld
    /\ StoreTypes /\ KnownPresent /\ LastFollows /\ Rests

Undisturbed ==
    \A c \in Connections :
        InProgress(arbiter, c) /\ session'[c] = session[c] => InProgress(arbiter', c)

----------------------------------------------------------------------------
(* The sessions and the arbiter.                                           *)

USE DEF flash

\* Connect, and any step that leaves the arbiter alone.
LEMMA ConnectSessions ==
    ASSUME AdmissionInv, ActiveIsHeld, NEW c \in Connections, Connect(c)
    PROVE  AdmissionInv' /\ ActiveIsHeld' /\ Undisturbed
<1>1. /\ session' = [session EXCEPT ![c] = In("handshake")] /\ arbiter' = arbiter
      /\ session[c].phase = "absent"
  BY DEF Connect
<1>2. In("handshake") \in Sessions /\ Blank(In("handshake")) /\ In("handshake").phase = "handshake"
  BY InType DEF Phases
<1>3. /\ session' \in [Connections -> Sessions] /\ session'[c] = In("handshake")
      /\ \A d \in Connections \ {c} : session'[d] = session[d]
  BY <1>1, <1>2 DEF AdmissionInv
<1>4. ~Holds(arbiter, c)
  BY <1>1 DEF AdmissionInv, Told
<1>5. AdmissionInv'
  BY <1>1, <1>2, <1>3, <1>4, StepKeeps DEF AdmissionInv, Told, NoNews
<1>6. ActiveIsHeld' /\ Undisturbed
  BY <1>1, <1>2, <1>3 DEF ActiveIsHeld, Active, Undisturbed
<1> QED
  BY <1>5, <1>6

LEMMA OwnSessions ==
    ASSUME AdmissionInv, ActiveIsHeld, NEW c \in Connections, OwnStep(c)
    PROVE  AdmissionInv' /\ ActiveIsHeld' /\ Undisturbed
<1>1. OwnOnly(c)
  BY OwnStepKeeps
<1> QED
  BY <1>1 DEF OwnOnly, ActiveIsHeld, Active, Undisturbed

\* The connection the arbiter displaces is told in the same step.
LEMMA ActivateSessions ==
    ASSUME AdmissionInv, ActiveIsHeld, NEW c \in Connections, Activate(c)
    PROVE  AdmissionInv' /\ ActiveIsHeld' /\ Undisturbed
<1>0. PICK rank \in Ranks : \E att \in Begins(rank) :
          /\ session' = [d \in Connections |->
                            IF d = c THEN ActivatedSession(c, rank, att)
                            ELSE IF d \in Leaving(c, rank) THEN In("closed")
                            ELSE session[d]]
          /\ arbiter' = ActivatedArbiter(c, rank, att)
  BY DEF Activate, Ranks
<1>1. PICK att \in Begins(rank) :
          /\ session' = [d \in Connections |->
                            IF d = c THEN ActivatedSession(c, rank, att)
                            ELSE IF d \in Leaving(c, rank) THEN In("closed")
                            ELSE session[d]]
          /\ arbiter' = ActivatedArbiter(c, rank, att)
  BY <1>0
<1>2. session[c].phase \in {"opening", "active"}
  BY DEF Activate
<1> DEFINE s == ActivatedSession(c, rank, att)
           gone == Verdict(c, rank).displaced
<1>3. Activates(c, arbiter', s, gone)
  BY <1>1, <1>2, ActivateFacts
<1>4. /\ session'[c] = s
      /\ \A d \in Connections \ {c} :
            session'[d] = IF d \in gone THEN In("closed") ELSE session[d]
  BY <1>1 DEF Leaving
<1>5. session' \in [Connections -> Sessions]
  <2>1. s \in Sessions
    BY <1>3 DEF Activates
  <2>2. \A d \in Connections : session[d] \in Sessions
    BY DEF AdmissionInv
  <2>3. In("closed") \in Sessions
    BY InType DEF Phases
  <2> QED
    BY <1>1, <2>1, <2>2, <2>3
<1> HIDE DEF s, gone
<1>6. AdmissionInv'
  BY <1>3, <1>4, <1>5, StepKeeps DEF Activates
<1>7. ActiveIsHeld'
  <2>1. In("closed").phase = "closed"
    BY DEF In
  <2> QED
    BY <1>3, <1>4, <2>1 DEF Activates, ActiveIsHeld, Active
<1>8. Undisturbed
  BY <1>3, <1>4 DEF Activates, Undisturbed
<1> QED
  BY <1>6, <1>7, <1>8

LEMMA FreeSessions ==
    ASSUME AdmissionInv, ActiveIsHeld, NEW c \in Connections, FreeConnection(c)
    PROVE  AdmissionInv' /\ ActiveIsHeld' /\ Undisturbed
<1>1. /\ session' = [session EXCEPT ![c] = In("absent")] /\ arbiter' = Ended(arbiter, c)
      /\ session[c].phase # "absent"
  BY DEF FreeConnection, Present
<1>2. In("absent") \in Sessions /\ Blank(In("absent")) /\ In("absent").phase = "absent"
  BY InType DEF Phases
<1>3. /\ session' \in [Connections -> Sessions] /\ session'[c] = In("absent")
      /\ \A d \in Connections \ {c} : session'[d] = session[d]
  BY <1>1, <1>2 DEF AdmissionInv
<1>4. /\ ArbiterInv(arbiter') /\ ~Holds(arbiter', c)
      /\ \A d \in Connections \ {c} :
            /\ Holds(arbiter', d) <=> Holds(arbiter, d)
            /\ RankIn(arbiter', d) = RankIn(arbiter, d) \/ ~Holds(arbiter, d)
            /\ InProgress(arbiter', d) <=> InProgress(arbiter, d)
  BY <1>1, EndedFacts DEF AdmissionInv
<1>5. \A d \in Connections \ {c} : NoNews(arbiter, arbiter', d)
  BY <1>4 DEF NoNews
<1>6. Told(arbiter', session'[c], c)
  BY <1>4 DEF Told
<1>7. AdmissionInv'
  BY <1>2, <1>3, <1>4, <1>5, <1>6, StepKeeps
<1>8. ActiveIsHeld' /\ Undisturbed
  BY <1>1, <1>2, <1>3, <1>4 DEF ActiveIsHeld, Active, Undisturbed
<1> QED
  BY <1>7, <1>8

LEMMA ClosingSessions ==
    ASSUME AdmissionInv, ActiveIsHeld,
           \/ PendingWork
           \/ ArbiterForget /\ operator.server \in Servers
           \/ UNCHANGED <<arbiter, session>>
    PROVE  AdmissionInv' /\ ActiveIsHeld' /\ Undisturbed
<1>1. /\ session' \in [Connections -> Sessions]
      /\ \A d \in Connections : session'[d] = session[d] \/ session'[d] = In("closed")
  <2>1. In("closed") \in Sessions
    BY InType DEF Phases
  <2> QED
    BY <2>1 DEF AdmissionInv, PendingWork, ArbiterForget
<1>2. /\ ArbiterInv(arbiter')
      /\ \A d \in Connections :
            /\ NoNews(arbiter, arbiter', d)
            /\ Holds(arbiter', d) <=> Holds(arbiter, d)
            /\ InProgress(arbiter', d) <=> InProgress(arbiter, d)
  <2>1. CASE arbiter' = arbiter
    BY <2>1 DEF AdmissionInv, NoNews
  <2>2. CASE ArbiterForget /\ operator.server \in Servers
    <3> DEFINE b == Forget(arbiter, operator.server)
    <3>1. ArbiterInv(arbiter)
      BY DEF AdmissionInv
    <3>2. ArbiterInv(b) /\ arbiter' = b
      BY <2>2, <3>1, ForgetKeeps DEF ArbiterForget
    <3>3. b.admitted = arbiter.admitted /\ b.beside = arbiter.beside
      BY <3>1 DEF Forget, ArbiterInv, ArbiterStates
    <3> HIDE DEF b
    <3> QED
      BY <3>2, <3>3 DEF NoNews, Holds, IsAdmitted, IsBeside, InProgress, RankIn
  <2> QED
    BY <2>1, <2>2 DEF PendingWork
<1>3. \A d \in Connections : Told(arbiter', session'[d], d) /\ Blank(session'[d])
  BY <1>1, <1>2, OthersKept
<1>4. In("closed").phase = "closed"
  BY DEF In
<1> QED
  BY <1>1, <1>2, <1>3, <1>4 DEF AdmissionInv, ActiveIsHeld, Active, Undisturbed

\* A restart leaves nobody held and nobody connected.
LEMMA BootSessions ==
    ASSUME AdmissionInv, stored \in Servers \cup {NoServer}, Boot(stored)
    PROVE  AdmissionInv' /\ ActiveIsHeld' /\ Undisturbed
<1>1. arbiter' = New(stored) /\ session' = [c \in Connections |-> In("absent")]
  BY DEF Boot
<1>2. In("absent") \in Sessions /\ Blank(In("absent")) /\ In("absent").phase = "absent"
  BY InType DEF Phases
<1>3. ArbiterInv(arbiter') /\ \A c : ~Holds(arbiter', c)
  BY <1>1, NewFacts
<1>4. AdmissionInv' /\ ActiveIsHeld'
  BY <1>1, <1>2, <1>3 DEF AdmissionInv, Told, ActiveIsHeld, Active
<1>5. Undisturbed
  <2> SUFFICES ASSUME NEW c \in Connections, InProgress(arbiter, c), session'[c] = session[c]
               PROVE  FALSE
    BY DEF Undisturbed
  <2>1. Holds(arbiter, c) /\ session[c].phase = "absent"
    BY <1>1, <1>2 DEF InProgress, Holds
  <2> QED
    BY <2>1 DEF AdmissionInv, Told
<1> QED
  BY <1>4, <1>5

LEMMA BoardSessions ==
    ASSUME BoardInv, BoardNext
    PROVE  AdmissionInv' /\ ActiveIsHeld' /\ Undisturbed
<1> USE DEF BoardInv
<1>1. ASSUME NEW c \in Connections, Connect(c)
      PROVE  AdmissionInv' /\ ActiveIsHeld' /\ Undisturbed
  BY <1>1, ConnectSessions
<1>2. ASSUME NEW c \in Connections, Handshake(c) \/ SessionStep(c) \/ Paired(c) \/ Unpair(c)
      PROVE  AdmissionInv' /\ ActiveIsHeld' /\ Undisturbed
  <2>1. OwnStep(c)
    BY <1>2 DEF Handshake, SessionStep, Paired, Unpair, Close, OwnStep
  <2> QED
    BY <2>1, OwnSessions
<1>3. ASSUME NEW c \in Connections, Activate(c)
      PROVE  AdmissionInv' /\ ActiveIsHeld' /\ Undisturbed
  BY <1>3, ActivateSessions
<1>4. ASSUME NEW c \in Connections, FreeConnection(c)
      PROVE  AdmissionInv' /\ ActiveIsHeld' /\ Undisturbed
  BY <1>4, FreeSessions
<1>5. CASE PendingWork
  BY <1>5, ClosingSessions
<1>6. CASE ArbiterForget
  <2>1. operator.server \in Servers
    BY <1>6 DEF ArbiterForget, StoreTypes, Operators, Idle
  <2> QED
    BY <1>6, <2>1, ClosingSessions
<1>7. CASE Establish \/ ReadLast \/ WriteLast \/ QueuePrune \/ \E s \in Forgettable : RemoveRecord(s)
  <2>1. UNCHANGED <<arbiter, session>>
    BY <1>7 DEF Establish, ReadLast, WriteLast, QueuePrune, RemoveRecord
  <2> QED
    BY <2>1, ClosingSessions
<1>8. CASE Restart
  BY <1>8, BootSessions DEF Restart, StoreTypes
<1> QED
  BY <1>1, <1>2, <1>3, <1>4, <1>5, <1>6, <1>7, <1>8 DEF BoardNext, ServerTask, OperatorTask

----------------------------------------------------------------------------
(* The store.                                                              *)

\* Where the tasks stand, by name.
LEMMA Places ==
    ASSUME StoreTypes
    PROVE  /\ task = Idle <=> task.at = "idle"
           /\ task.at \in {"idle", "readLast", "establish", "writeLast"}
           /\ task.at = "establish" => task.id \in Connections /\ task.matched \in BOOLEAN
           /\ task.at = "writeLast" => task.last \in Servers
           /\ operator = Idle <=> operator.at = "idle"
           /\ operator.at \in {"idle", "prune", "forget"}
BY DEF StoreTypes, Tasks, Operators, Idle

LEMMA TypesKept ==
    ASSUME BoardInv, BoardNext
    PROVE  StoreTypes'
<1> USE BoardAssumption DEF BoardInv, StoreTypes
<1>1. CASE Establish \/ ReadLast \/ WriteLast \/ PendingWork
  <2>1. arbiter.lastPlayback \in Servers \cup {NoServer}
    BY DEF AdmissionInv, ArbiterInv, ArbiterStates
  <2>2. task' \in Tasks
    BY <1>1, <2>1 DEF Establish, ReadLast, WriteLast, PendingWork, Tasks
  <2> QED
    BY <1>1, <2>2, Places DEF Establish, ReadLast, WriteLast, PendingWork
<1>2. ASSUME NEW c \in Connections,
             Connect(c) \/ Activate(c) \/ SessionStep(c) \/ FreeConnection(c)
      PROVE  StoreTypes'
  BY <1>2 DEF Connect, Activate, SessionStep, FreeConnection, Tasks
<1>3. ASSUME NEW c \in Connections, Handshake(c) \/ Paired(c) \/ Unpair(c)
      PROVE  StoreTypes'
  <2>1. ServerOf[c] \in Servers
    BY ArbiterAssumption
  <2> QED
    BY <1>3, <2>1 DEF Handshake, Paired, Unpair, Tasks
<1>4. CASE OperatorTask
  <2>1. CASE ArbiterForget \/ QueuePrune
    BY <2>1 DEF ArbiterForget, QueuePrune, Operators
  <2>2. ASSUME NEW s \in Forgettable, RemoveRecord(s)
        PROVE  StoreTypes'
    <3>1. s \in Servers
      OBVIOUS
    <3>2. operator' \in Operators
      BY <2>2, <3>1 DEF RemoveRecord, Operators
    <3> QED
      BY <2>2, <3>2 DEF RemoveRecord
  <2> QED
    BY <1>4, <2>1, <2>2 DEF OperatorTask
<1>5. CASE Restart
  BY <1>5 DEF Restart, Boot, Tasks, Operators
<1> QED
  BY <1>1, <1>2, <1>3, <1>4, <1>5 DEF BoardNext, ServerTask

\* A connection on record, or whose handshake is being entered, is there until
\* its socket is freed, which takes it off.
LEMMA PresentKept ==
    ASSUME BoardInv, BoardNext
    PROVE  KnownPresent'
<1> USE DEF BoardInv, KnownPresent
<1>1. session \in [Connections -> Sessions] /\ longTerm \subseteq Connections
  BY DEF AdmissionInv, StoreTypes
<1>2. In("closed").phase # "absent" /\ In("handshake").phase # "absent"
  BY DEF In
<1>3. CASE Establish
  BY <1>1, <1>3, Places DEF Establish, Present, Idle
<1>4. CASE ReadLast \/ WriteLast
  BY <1>4, Places DEF ReadLast, WriteLast, Present, Idle
<1>5. CASE PendingWork
  <2>1. session' = [c \in Connections |->
                      IF c \in longTerm /\ Present(c) /\ ServerOf[c] \notin records
                        THEN In("closed") ELSE session[c]]
        /\ longTerm' = longTerm /\ task' = task /\ task = Idle
    BY <1>5 DEF PendingWork
  <2>2. \A c \in Connections : Present(c) => session'[c].phase # "absent"
    BY <1>2, <2>1 DEF Present
  <2> QED
    BY <1>1, <2>1, <2>2, Places DEF Present
<1>6. ASSUME NEW c \in Connections, Connect(c)
      PROVE  KnownPresent'
  BY <1>1, <1>2, <1>6, Places DEF Connect, Present
<1>7. ASSUME NEW c \in Connections, Handshake(c) \/ SessionStep(c) \/ Paired(c) \/ Unpair(c)
      PROVE  KnownPresent'
  <2>1. OwnStep(c)
    BY <1>7 DEF Handshake, SessionStep, Paired, Unpair, Close, OwnStep
  <2>2. OwnOnly(c)
    BY <2>1, OwnStepKeeps
  <2>3. \A d \in Connections : Present(d) => session'[d].phase # "absent"
    BY <2>2 DEF OwnOnly, Present
  <2>4. session'[c].phase # "absent"
    BY <2>2 DEF OwnOnly
  <2>5. longTerm' = longTerm /\ (task'.at = "establish" => task'.id = c)
    BY <1>7, Places DEF Handshake, SessionStep, Paired, Unpair
  <2> QED
    BY <1>1, <2>3, <2>4, <2>5 DEF Present
<1>8. ASSUME NEW c \in Connections, Activate(c)
      PROVE  KnownPresent'
  <2>1. /\ \A d \in Connections : session'[d] = session[d] \/ session'[d].phase # "absent"
        /\ longTerm' = longTerm /\ task' = [at |-> "readLast"]
    BY <1>2, <1>8 DEF Activate, ActivatedSession, In
  <2> QED
    BY <1>1, <2>1 DEF Present
<1>9. ASSUME NEW c \in Connections, FreeConnection(c)
      PROVE  KnownPresent'
  BY <1>1, <1>9, Places DEF FreeConnection, Present
<1>10. CASE OperatorTask
  BY <1>10 DEF OperatorTask, ArbiterForget, QueuePrune, RemoveRecord, Present
<1>11. CASE Restart
  BY <1>11 DEF Restart, Boot, Idle
<1> QED
  BY <1>3, <1>4, <1>5, <1>6, <1>7, <1>8, <1>9, <1>10, <1>11 DEF BoardNext, ServerTask

\* Between activations the last-playback server changes only by being forgotten.
LEMMA LastKept ==
    ASSUME BoardInv, BoardNext
    PROVE  LastFollows'
<1> USE DEF BoardInv, LastFollows, LastsAgree
<1>1. arbiter \in ArbiterStates /\ ArbiterInv(arbiter)
  BY DEF AdmissionInv, ArbiterInv
<1>2. ASSUME NEW c \in Connections, Handshake(c) \/ SessionStep(c) \/ Paired(c) \/ Unpair(c)
      PROVE  LastFollows'
  <2>1. OwnStep(c)
    BY <1>2 DEF Handshake, SessionStep, Paired, Unpair, Close, OwnStep
  <2>2. arbiter'.lastPlayback = arbiter.lastPlayback
    BY <2>1, OwnStepKeeps DEF OwnOnly
  <2>3. task.at = "idle" /\ stored' \in {stored, NoServer} /\ task'.at \in {"idle", "establish"}
    BY <1>2 DEF Handshake, SessionStep, Paired, Unpair, Idle
  <2> QED
    BY <2>2, <2>3
<1>3. ASSUME NEW c \in Connections, FreeConnection(c)
      PROVE  LastFollows'
  <2>1. arbiter'.lastPlayback = arbiter.lastPlayback
    BY <1>1, <1>3, EndedFacts DEF FreeConnection
  <2> QED
    BY <1>3, <2>1 DEF FreeConnection
<1>4. ASSUME NEW c \in Connections, Connect(c) \/ Activate(c)
      PROVE  LastFollows'
  BY <1>4 DEF Connect, Activate
<1>5. CASE Establish \/ PendingWork
  BY <1>5 DEF Establish, PendingWork, Idle
<1>6. CASE ReadLast \/ WriteLast
  BY <1>6 DEF ReadLast, WriteLast, Idle
<1>7. CASE OperatorTask
  <2>1. CASE ArbiterForget
    <3>1. arbiter'.lastPlayback \in {arbiter.lastPlayback, NoServer}
      BY <1>1, <2>1 DEF ArbiterForget, Forget, ArbiterStates
    <3> QED
      BY <2>1, <3>1 DEF ArbiterForget
  <2>2. CASE QueuePrune
    BY <2>2 DEF QueuePrune
  <2>3. ASSUME NEW s \in Forgettable, RemoveRecord(s)
        PROVE  LastFollows'
    BY <2>3 DEF RemoveRecord
  <2> QED
    BY <1>7, <2>1, <2>2, <2>3 DEF OperatorTask
<1>8. CASE Restart
  <2>1. arbiter'.lastPlayback = stored
    BY <1>8 DEF Restart, Boot, New
  <2> QED
    BY <1>8, <2>1 DEF Restart, Boot, Idle
<1> QED
  BY <1>2, <1>3, <1>4, <1>5, <1>6, <1>7, <1>8 DEF BoardNext, ServerTask

\* The prune runs after the handshake that may have read a removed record.
LEMMA RestsKept ==
    ASSUME BoardInv, BoardNext
    PROVE  Rests'
<1> USE DEF BoardInv, Rests
<1>1. session \in [Connections -> Sessions] /\ longTerm \subseteq Connections
  BY DEF AdmissionInv, StoreTypes
<1>2. In("closed").phase = "closed"
  BY DEF In
<1>3. CASE Establish
  BY <1>3, Places DEF Establish, Idle
<1>4. CASE ReadLast \/ WriteLast
  BY <1>4, Places DEF ReadLast, WriteLast, Idle
<1>5. CASE PendingWork
  <2>1. \A c \in longTerm : ServerOf[c] \in records \/ session'[c].phase = "closed"
    BY <1>1, <1>2, <1>5 DEF PendingWork, KnownPresent
  <2> QED
    BY <1>5, <2>1, Places DEF PendingWork
<1>6. ASSUME NEW c \in Connections, Connect(c)
      PROVE  Rests'
  <2>1. c \notin longTerm
    BY <1>6 DEF Connect, KnownPresent, Present
  <2> QED
    BY <1>1, <1>6, <2>1 DEF Connect
<1>7. ASSUME NEW c \in Connections, Handshake(c) \/ SessionStep(c) \/ Paired(c) \/ Unpair(c)
      PROVE  Rests'
  <2>1. OwnStep(c)
    BY <1>7 DEF Handshake, SessionStep, Paired, Unpair, Close, OwnStep
  <2>2. /\ \A d \in Connections \ {c} : session'[d] = session[d]
        /\ session[c].phase # "closed"
    BY <2>1, OwnStepKeeps DEF OwnOnly
  <2>3. /\ longTerm' = longTerm /\ operator' = operator /\ prune' = prune
        /\ task'.at = "establish" /\ task'.matched => ServerOf[task'.id] \in records'
    BY <1>7, Places DEF Handshake, SessionStep, Paired, Unpair
  <2>4. ASSUME NEW d \in longTerm, ServerOf[d] \in records \cup unpaired,
               session'[d].phase # "closed"
        PROVE  ServerOf[d] \in records' \cup unpaired'
    <3>1. CASE Paired(c)
      <4>1. PICK evicted \in SUBSET (records \ InUse(c)) :
                /\ records' = (records \ evicted) \cup {ServerOf[c]}
                /\ unpaired' = unpaired \ {ServerOf[c]}
        BY <3>1 DEF Paired
      <4>2. d # c => ServerOf[d] \in InUse(c)
        BY <1>1, <2>2, <2>4 DEF InUse
      <4> QED
        BY <2>4, <4>1, <4>2
    <3>2. CASE Unpair(c)
      BY <2>4, <3>2 DEF Unpair
    <3>3. CASE Handshake(c) \/ SessionStep(c)
      BY <2>4, <3>3 DEF Handshake, SessionStep
    <3> QED
      BY <1>7, <3>1, <3>2, <3>3
  <2> QED
    BY <1>1, <2>2, <2>3, <2>4
<1>8. ASSUME NEW c \in Connections, Activate(c)
      PROVE  Rests'
  <2>1. /\ \A d \in Connections \ {c} : session'[d] = session[d] \/ session'[d].phase = "closed"
        /\ session[c].phase # "closed" /\ task'.at = "readLast"
        /\ UNCHANGED <<records, longTerm, operator, prune, unpaired>>
    BY <1>2, <1>8 DEF Activate
  <2> QED
    BY <1>1, <2>1
<1>9. ASSUME NEW c \in Connections, FreeConnection(c)
      PROVE  Rests'
  BY <1>1, <1>9 DEF FreeConnection
<1>10. CASE ArbiterForget \/ QueuePrune
  BY <1>10, Places DEF ArbiterForget, QueuePrune, Idle
<1>11. ASSUME NEW s \in Forgettable, RemoveRecord(s)
       PROVE  Rests'
  BY <1>11 DEF RemoveRecord, Idle
<1>12. CASE Restart
  BY <1>12 DEF Restart, Boot, Idle
<1> QED
  BY <1>3, <1>4, <1>5, <1>6, <1>7, <1>8, <1>9, <1>10, <1>11, <1>12
  DEF BoardNext, ServerTask, OperatorTask

----------------------------------------------------------------------------
LEMMA BoardInitInv == BoardInit => BoardInv
<1> SUFFICES ASSUME BoardInit PROVE BoardInv
  OBVIOUS
<1>1. /\ arbiter = New(NoServer) /\ stored = NoServer /\ records \in SUBSET Servers
      /\ session = [c \in Connections |-> In("absent")]
      /\ longTerm = {} /\ task = Idle /\ operator = Idle /\ prune = FALSE /\ unpaired = {}
  BY DEF BoardInit
<1>2. In("absent") \in Sessions /\ Blank(In("absent")) /\ In("absent").phase = "absent"
  BY InType DEF Phases
<1>3. /\ ArbiterInv(arbiter) /\ arbiter.lastPlayback = NoServer
      /\ \A c : ~Holds(arbiter, c)
  BY <1>1, NewFacts
<1>4. AdmissionInv /\ ActiveIsHeld
  BY <1>1, <1>2, <1>3 DEF AdmissionInv, Told, ActiveIsHeld, Active
<1>5. StoreTypes /\ KnownPresent /\ Rests
  BY <1>1 DEF StoreTypes, KnownPresent, Rests, Tasks, Operators, Idle
<1>6. LastFollows
  BY <1>1, <1>3 DEF LastFollows, LastsAgree, Idle
<1> QED
  BY <1>4, <1>5, <1>6 DEF BoardInv

LEMMA BoardNextKeeps == BoardInv /\ [BoardNext]_vars => BoardInv' /\ Undisturbed
<1> SUFFICES ASSUME BoardInv, [BoardNext]_vars PROVE BoardInv' /\ Undisturbed
  OBVIOUS
<1>1. CASE BoardNext
  BY <1>1, BoardSessions, TypesKept, PresentKept, LastKept, RestsKept DEF BoardInv
<1>2. CASE UNCHANGED vars
  BY <1>2
  DEF vars, flash, BoardInv, AdmissionInv, AdmissionTypeOK, ActiveIsHeld, Active, StoreTypes,
      KnownPresent, Present, LastFollows, LastsAgree, Rests, Undisturbed
<1> QED
  BY <1>1, <1>2

LEMMA BoardAlways == BoardSpec => []BoardInv
BY BoardInitInv, BoardNextKeeps, PTL DEF BoardSpec

\* Every task of the board leaves its state well formed.
THEOREM BoardTypeCorrect == BoardSpec => []BoardTypeOK
<1>1. BoardInv => BoardTypeOK
  BY DEF BoardInv, BoardTypeOK, AdmissionInv, AdmissionTypeOK, TypeOK, ArbiterInv, StoreTypes
<1> QED
  BY <1>1, BoardAlways, PTL

\* The board runs as admitted only what its arbiter holds: a displaced session
\* is told in the handler that displaces it.
THEOREM BoardActiveIsHeld == BoardSpec => []ActiveIsHeld
<1>1. BoardInv => ActiveIsHeld
  BY DEF BoardInv
<1> QED
  BY <1>1, BoardAlways, PTL

\* One session declares playback on the board, and two are active at most.
THEOREM BoardOnePlays == BoardSpec => []OnePlays
<1>1. BoardInv => OnePlays
  <2> SUFFICES ASSUME BoardInv PROVE OnePlays
    OBVIOUS
  <2> DEFINE active == {c \in Connections : Active(c)}
             playing == {c \in Connections : Declares(c, Playback)}
  <2>1. AdmissionInv /\ \A c \in Connections : Active(c) => Holds(arbiter, c)
    BY DEF BoardInv, ActiveIsHeld
  <2>2. Cardinality(active) <= 2
    BY <2>1, FewHeld
  <2>3. Cardinality(playing) <= 1
    BY <2>1, FewHeld DEF Declares
  <2> QED
    BY <2>2, <2>3 DEF OnePlays
<1> QED
  BY <1>1, BoardAlways, PTL

\* Once a handler is over, flash and arbiter never name two different servers as
\* the last to play, whatever the operator, an unpairing server or a restart did.
THEOREM BoardLastsAgree == BoardSpec => []LastsAgree
<1>1. BoardInv => LastsAgree
  BY DEF BoardInv, LastFollows
<1> QED
  BY <1>1, BoardAlways, PTL

\* After forget_server and its prune, no connection rests on a record removed or
\* evicted, but for the other connections of a server that unpaired itself since.
THEOREM BoardForgottenLeaves == BoardSpec => []ForgottenLeaves
<1>1. BoardInv => ForgottenLeaves
  BY DEF BoardInv, Rests, ForgottenLeaves
<1> QED
  BY <1>1, BoardAlways, PTL

\* No other connection, worker or operator takes a running attempt out of the
\* arbiter.
THEOREM BoardAttemptUndisturbed == BoardSpec => AttemptUndisturbed
<1>1. BoardInv /\ [BoardNext]_vars =>
        [\A c \in Connections :
            InProgress(arbiter, c) /\ session'[c] = session[c] =>
                InProgress(arbiter', c)]_<<arbiter, session>>
  BY BoardNextKeeps DEF Undisturbed
<1> QED
  BY <1>1, BoardAlways, PTL DEF BoardSpec, AttemptUndisturbed

\* The arbiter shields a connection only while its session runs an attempt.
THEOREM BoardAttemptReported == BoardSpec => []AttemptReported
<1>1. BoardInv => AttemptReported
  BY ReportedFollows DEF BoardInv
<1> QED
  BY <1>1, BoardAlways, PTL
=============================================================================
