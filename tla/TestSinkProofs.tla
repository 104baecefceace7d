--------------------------- MODULE TestSinkProofs ---------------------------
(***************************************************************************)
(* The sink's sessions and arbiter agree, for any number of connections    *)
(* and servers, up to the displacements its worker has yet to carry out.   *)
(***************************************************************************)
EXTENDS TestSink, AdmissionProofs, SequenceTheorems

\* Where a connection is on its way out.  A session is destroyed only once its
\* connection is in nobody's list, and the arbiter told of its end before that;
\* remove() is posted by the end of its own driver.
Presence ==
    /\ \A c \in listed : session[c].phase \notin {"absent", "gone"}
    /\ \A c \in Connections :
          session[c].phase \notin {"absent", "gone"} /\ c \notin ended => c \in listed
    /\ \A c \in Connections : Holds(arbiter, c) => c \in listed \/ c = removing
    /\ \A c \in Connections : Posted("remove", c) => c \in ended
    /\ removing # Nobody => removing \in ended /\ removing \notin listed
    /\ \A c \in ended : session[c].phase # "absent"

SinkInv ==
    /\ AdmissionInv
    /\ posted \in Seq(Work) /\ ended \subseteq Connections
    /\ listed \subseteq Connections /\ visiting \subseteq Connections
    /\ removing \in Connections \cup {Nobody}
    /\ ActiveIsHeld
    /\ Presence

LeftAlone ==
    \A c \in Connections :
        InProgress(arbiter, c) /\ session'[c] = session[c] =>
            InProgress(arbiter', c) \/ (removing = c /\ c \in ended)

----------------------------------------------------------------------------
(* The worker's queue.                                                     *)

LEMMA PostedAppend ==
    ASSUME posted \in Seq(Work), NEW w \in Work, posted' = posted \o <<w>>
    PROVE  /\ posted' \in Seq(Work)
           /\ \A d : Posted("displace", d) => Posted("displace", d)'
           /\ \A d : w = [op |-> "displace", id |-> d] => Posted("displace", d)'
           /\ \A d : Posted("remove", d)' =>
                 Posted("remove", d) \/ w = [op |-> "remove", id |-> d]
<1> DEFINE one == <<w>>
<1>1. one \in Seq(Work) /\ Len(one) = 1 /\ one[1] = w
  OBVIOUS
<1> HIDE DEF one
<1>2. /\ posted \o one \in Seq(Work) /\ Len(posted \o one) = Len(posted) + Len(one)
      /\ \A i \in 1..Len(posted) + Len(one) :
            (posted \o one)[i] = IF i <= Len(posted) THEN posted[i] ELSE one[i - Len(posted)]
  BY <1>1, ConcatProperties
<1>3. posted' = posted \o one /\ Len(posted) \in Nat
  BY LenProperties DEF one
<1>4. /\ posted' \in Seq(Work) /\ Len(posted') = Len(posted) + 1
      /\ \A i \in 1..Len(posted) : posted'[i] = posted[i]
      /\ posted'[Len(posted) + 1] = w
  BY <1>1, <1>2, <1>3
<1>5. \A i \in 1..Len(posted) : i \in 1..Len(posted')
  BY <1>3, <1>4
<1>6. Len(posted) + 1 \in 1..Len(posted')
  BY <1>3, <1>4
<1>7. \A i \in 1..Len(posted') : i \in 1..Len(posted) \/ i = Len(posted) + 1
  BY <1>3, <1>4
<1>8. \A d : Posted("remove", d)' => Posted("remove", d) \/ w = [op |-> "remove", id |-> d]
  BY <1>4, <1>7 DEF Posted
<1> QED
  BY <1>4, <1>5, <1>6, <1>8 DEF Posted

LEMMA PostedTail ==
    ASSUME posted \in Seq(Work), posted # <<>>, posted' = Tail(posted)
    PROVE  /\ posted' \in Seq(Work)
           /\ \A d : Posted("displace", d) /\ Head(posted) # [op |-> "displace", id |-> d]
                        => Posted("displace", d)'
           /\ \A d : Posted("remove", d)' => Posted("remove", d)
           /\ \A d : Head(posted) = [op |-> "remove", id |-> d] => Posted("remove", d)
<1>1. /\ posted' \in Seq(Work) /\ Len(posted') = Len(posted) - 1 /\ Head(posted) = posted[1]
      /\ \A i \in 1..Len(posted') : posted'[i] = posted[i + 1]
      /\ Len(posted) \in Nat
  BY HeadTailProperties, LenProperties
<1>2. ASSUME NEW d, NEW i \in 1..Len(posted), posted[i] = [op |-> "displace", id |-> d], i # 1
      PROVE  Posted("displace", d)'
  <2>1. i - 1 \in 1..Len(posted') /\ posted'[i - 1] = posted[i]
    BY <1>1, <1>2
  <2> QED
    BY <1>2, <2>1 DEF Posted
<1>3. 1 \in 1..Len(posted) /\ \A i \in 1..Len(posted') : i + 1 \in 1..Len(posted)
  <2>1. Len(posted) # 0
    BY EmptySeq
  <2> QED
    BY <1>1, <2>1
<1>4. \A d : Posted("remove", d)' => Posted("remove", d)
  BY <1>1, <1>3 DEF Posted
<1> QED
  BY <1>1, <1>2, <1>3, <1>4 DEF Posted

----------------------------------------------------------------------------
(* The actions.                                                            *)

LEMMA AcceptKeeps ==
    ASSUME SinkInv, NEW c \in Connections, Accept(c)
    PROVE  SinkInv' /\ LeftAlone
<1>1. /\ session' = [session EXCEPT ![c] = In("handshake")] /\ arbiter' = arbiter
      /\ posted' = posted /\ ended' = ended /\ listed' = listed \cup {c}
      /\ removing' = removing /\ visiting' = visiting
      /\ session[c].phase = "absent"
  BY DEF Accept
<1>2. In("handshake") \in Sessions /\ Blank(In("handshake")) /\ In("handshake").phase = "handshake"
  BY InType DEF Phases
<1>3. /\ session' \in [Connections -> Sessions] /\ session'[c] = In("handshake")
      /\ \A d \in Connections \ {c} : session'[d] = session[d]
  BY <1>1, <1>2 DEF SinkInv, AdmissionInv
<1>4. ~Holds(arbiter, c)
  BY <1>1 DEF SinkInv, AdmissionInv, Told
<1>5. AdmissionInv'
  BY <1>1, <1>2, <1>3, <1>4, StepKeeps DEF SinkInv, AdmissionInv, Told, NoNews
<1>6. ActiveIsHeld' /\ LeftAlone
  BY <1>1, <1>2, <1>3 DEF SinkInv, ActiveIsHeld, Active, Leaving, Posted, LeftAlone
<1>7. Presence'
  <2>1. c \notin ended /\ c # Nobody
    BY <1>1, SinkAssumption DEF SinkInv, Presence
  <2>2. removing # c
    BY <2>1 DEF SinkInv, Presence
  <2> QED
    BY <1>1, <1>2, <1>3, <2>2 DEF SinkInv, Presence, Posted
<1> QED
  BY <1>1, <1>5, <1>6, <1>7 DEF SinkInv

\* A step of c's session, driven or called by the operator, moves nobody.
LEMMA OwnKeeps ==
    ASSUME SinkInv, NEW c \in Connections, OwnOnly(c),
           posted' = posted, ended' = ended, listed' = listed, removing' = removing,
           visiting' \subseteq Connections
    PROVE  SinkInv' /\ LeftAlone
<1>1. ActiveIsHeld' /\ LeftAlone
  BY DEF SinkInv, OwnOnly, ActiveIsHeld, Active, Leaving, Posted, LeftAlone
<1>2. Presence'
  BY DEF SinkInv, OwnOnly, Presence, Posted
<1> QED
  BY <1>1, <1>2 DEF SinkInv, OwnOnly

LEMMA SessionStepKeeps ==
    ASSUME SinkInv, NEW c \in Connections, SessionStep(c)
    PROVE  SinkInv' /\ LeftAlone
<1>1. OwnOnly(c)
  BY OwnStepKeeps DEF SessionStep, SinkInv, OwnStep
<1> QED
  BY <1>1, OwnKeeps DEF SessionStep, sinkVars, SinkInv

\* So does a visit that finds nothing to do, and the making of the list.
LEMMA OperatorKeeps ==
    ASSUME SinkInv, \/ OperatorCalls
                    \/ \E c \in Connections : OperatorVisits(c)
    PROVE  SinkInv' /\ LeftAlone
<1>1. CASE OperatorCalls
  BY <1>1
  DEF OperatorCalls, SinkInv, AdmissionInv, ActiveIsHeld, Active, Leaving, Posted,
      Presence, LeftAlone
<1>2. ASSUME NEW c \in Connections, OperatorVisits(c)
      PROVE  SinkInv' /\ LeftAlone
  <2>1. CASE AttemptBegins(c) \/ AttemptEnds(c)
    <3>1. OwnOnly(c)
      BY <2>1, OwnStepKeeps DEF SinkInv, OwnStep
    <3> QED
      BY <1>2, <3>1, OwnKeeps DEF OperatorVisits, SinkInv
  <2>2. CASE UNCHANGED <<arbiter, session>>
    BY <1>2, <2>2
    DEF OperatorVisits, SinkInv, AdmissionInv, ActiveIsHeld, Active, Leaving, Posted,
        Presence, LeftAlone
  <2> QED
    BY <1>2, <2>1, <2>2 DEF OperatorVisits
<1> QED
  BY <1>1, <1>2

\* A displacement decided is with the worker in the same step.
LEMMA ActivateKeeps ==
    ASSUME SinkInv, NEW c \in Connections, Activate(c)
    PROVE  SinkInv' /\ LeftAlone
<1>0. PICK rank \in Ranks : \E att \in Begins(rank) :
          /\ session' = [session EXCEPT ![c] = ActivatedSession(c, rank, att)]
          /\ arbiter' = ActivatedArbiter(c, rank, att)
          /\ posted' = posted \o Displacements(Verdict(c, rank).displaced)
  BY DEF Activate
<1>1. PICK att \in Begins(rank) :
          /\ session' = [session EXCEPT ![c] = ActivatedSession(c, rank, att)]
          /\ arbiter' = ActivatedArbiter(c, rank, att)
          /\ posted' = posted \o Displacements(Verdict(c, rank).displaced)
  BY <1>0
<1> DEFINE s == ActivatedSession(c, rank, att)
           gone == Verdict(c, rank).displaced
<1>2. /\ AdmissionInv /\ session \in [Connections -> Sessions] /\ posted \in Seq(Work)
      /\ session[c].phase \in {"opening", "active"} /\ c \notin ended /\ ended' = ended
      /\ listed' = listed /\ removing' = removing /\ visiting' = visiting
  BY DEF SinkInv, AdmissionInv, Activate, Driven
<1>3. Activates(c, arbiter', s, gone)
  BY <1>1, <1>2, ActivateFacts
<1> HIDE DEF s, gone
<1>4. /\ session' \in [Connections -> Sessions] /\ session'[c] = s
      /\ \A d \in Connections \ {c} : session'[d] = session[d]
  BY <1>1, <1>2, <1>3 DEF Activates, s
<1>5. AdmissionInv'
  BY <1>2, <1>3, <1>4, StepKeeps DEF Activates
<1>6. /\ posted' \in Seq(Work)
      /\ \A d : Posted("displace", d) => Posted("displace", d)'
      /\ \A d \in gone : Posted("displace", d)'
      /\ \A d : Posted("remove", d)' => Posted("remove", d)
  <2>1. CASE gone = {}
    <3>1. posted' = posted \o <<>>
      BY <1>1, <2>1 DEF Displacements, gone
    <3>2. posted' = posted
      BY <1>2, <3>1, ConcatEmptySeq
    <3> QED
      BY <1>2, <2>1, <3>2 DEF Posted
  <2>2. ASSUME NEW d \in Connections, gone = {d}
        PROVE  /\ posted' \in Seq(Work)
               /\ \A e : Posted("displace", e) => Posted("displace", e)'
               /\ \A e \in gone : Posted("displace", e)'
               /\ \A e : Posted("remove", e)' => Posted("remove", e)
    <3> DEFINE w == [op |-> "displace", id |-> d]
    <3>1. w \in Work /\ \A e : w # [op |-> "remove", id |-> e]
      <4>1. \A e : w.op # [op |-> "remove", id |-> e].op
        OBVIOUS
      <4> QED
        BY <4>1 DEF Work
    <3>2. posted' = posted \o <<w>>
      BY <1>1, <2>2 DEF Displacements, gone
    <3> HIDE DEF w
    <3>3. /\ posted' \in Seq(Work)
          /\ \A e : Posted("displace", e) => Posted("displace", e)'
          /\ \A e : w = [op |-> "displace", id |-> e] => Posted("displace", e)'
          /\ \A e : Posted("remove", e)' => Posted("remove", e)
      BY <1>2, <3>1, <3>2, PostedAppend
    <3> QED
      BY <2>2, <3>3 DEF w
  <2> QED
    BY <1>3, <2>1, <2>2 DEF Activates
<1>7. ActiveIsHeld'
  <2> SUFFICES ASSUME NEW d \in Connections, Active(d)', ~Leaving(d)'
               PROVE  Holds(arbiter', d)
    BY DEF ActiveIsHeld
  <2>1. In("closed").phase = "closed"
    BY DEF In
  <2>2. CASE d = c
    BY <1>3, <1>4, <2>1, <2>2 DEF Activates, Active
  <2>3. CASE d # c
    <3>1. Active(d) /\ ~Leaving(d) /\ d \notin gone
      BY <1>2, <1>4, <1>6, <2>3 DEF Active, Leaving
    <3> QED
      BY <1>3, <2>3, <3>1 DEF SinkInv, ActiveIsHeld, Activates
  <2> QED
    BY <2>2, <2>3
<1>8. LeftAlone
  BY <1>3, <1>4 DEF Activates, LeftAlone
<1>9. Presence'
  <2>1. c \in listed
    BY <1>2 DEF SinkInv, Presence
  <2>2. s.phase \notin {"absent", "gone"}
    BY <1>3 DEF Activates, In
  <2>3. \A d \in Connections \ {c} : Holds(arbiter', d) => Holds(arbiter, d)
    BY <1>3 DEF Activates, NoNews
  <2> QED
    BY <1>2, <1>4, <1>6, <2>1, <2>2, <2>3 DEF SinkInv, Presence
<1> QED
  BY <1>2, <1>5, <1>6, <1>7, <1>8, <1>9 DEF SinkInv

LEMMA DriverEndsKeeps ==
    ASSUME SinkInv, NEW c \in Connections, DriverEnds(c)
    PROVE  SinkInv' /\ LeftAlone
<1> DEFINE w == [op |-> "remove", id |-> c]
<1>1. /\ posted' = Append(posted, w) /\ ended' = ended \cup {c}
      /\ arbiter' = arbiter /\ session' = session /\ posted \in Seq(Work)
      /\ listed' = listed /\ removing' = removing /\ visiting' = visiting
      /\ session[c].phase # "absent"
  BY DEF DriverEnds, SinkInv
<1>2. w \in Work /\ \A d : w = [op |-> "remove", id |-> d] => d = c
  <2>1. \A d : w.id = c /\ [op |-> "remove", id |-> d].id = d
    OBVIOUS
  <2> QED
    BY <2>1 DEF Work
<1> HIDE DEF w
<1>3. posted' = posted \o <<w>>
  BY <1>1, <1>2, AppendIsConcat
<1>4. /\ posted' \in Seq(Work)
      /\ \A d : Posted("displace", d) => Posted("displace", d)'
      /\ \A d : Posted("remove", d)' => Posted("remove", d) \/ d = c
  BY <1>1, <1>2, <1>3, PostedAppend
<1>5. AdmissionInv'
  BY <1>1 DEF SinkInv, AdmissionInv
<1>6. ActiveIsHeld' /\ LeftAlone
  BY <1>1, <1>4 DEF SinkInv, ActiveIsHeld, Active, Leaving, LeftAlone
<1>7. Presence'
  BY <1>1, <1>4 DEF SinkInv, Presence
<1> QED
  BY <1>1, <1>4, <1>5, <1>6, <1>7 DEF SinkInv

LEMMA RunDisplaceKeeps ==
    ASSUME SinkInv, NEW c \in Connections, RunDisplace(c)
    PROVE  SinkInv' /\ LeftAlone
<1> DEFINE w == [op |-> "displace", id |-> c]
<1>1. /\ AdmissionInv /\ session \in [Connections -> Sessions] /\ posted \in Seq(Work)
      /\ posted # <<>> /\ Head(posted) = w /\ posted' = Tail(posted) /\ ended' = ended
      /\ listed' = listed /\ removing' = removing /\ visiting' = visiting
      /\ removing = Nobody
  BY DEF RunDisplace, Takes, SinkInv, AdmissionInv
<1>2. \A d : d # c => w # [op |-> "displace", id |-> d]
  OBVIOUS
<1> HIDE DEF w
<1>3. /\ posted' \in Seq(Work)
      /\ \A d : d # c /\ Posted("displace", d) => Posted("displace", d)'
      /\ \A d : Posted("remove", d)' => Posted("remove", d)
  BY <1>1, <1>2, PostedTail
<1>4. In("closed") \in Sessions /\ Blank(In("closed")) /\ In("closed").phase = "closed"
  BY InType DEF Phases
<1>5. /\ AdmissionInv'
      /\ \A d \in Connections : Holds(arbiter', d) <=> Holds(arbiter, d)
      /\ \A d \in Connections \ {c} :
            session'[d] = session[d] /\ (InProgress(arbiter', d) <=> InProgress(arbiter, d))
      /\ ~(Active(c)' /\ ~Leaving(c)')
      /\ session'[c] = session[c] => arbiter' = arbiter
      /\ session'[c].phase = session[c].phase \/ (c \in listed /\ session'[c].phase = "closed")
  <2>1. CASE c \notin listed
    <3>1. session' = session /\ arbiter' = arbiter
      BY <2>1 DEF RunDisplace
    <3>2. Active(c) => c \in ended
      BY <1>1, <2>1 DEF SinkInv, Presence, Active
    <3> QED
      BY <1>1, <3>1, <3>2 DEF AdmissionInv, Active, Leaving
  <2>2. CASE c \in listed
    <3>1. /\ session' = [session EXCEPT ![c] = In("closed")]
          /\ arbiter' = Displaced(arbiter, c)
      BY <2>2 DEF RunDisplace
    <3>2. /\ session' \in [Connections -> Sessions] /\ session'[c] = In("closed")
          /\ \A d \in Connections \ {c} : session'[d] = session[d]
      BY <1>1, <1>4, <3>1
    <3>3. CASE session[c].phase = "closed"
      <4>1. arbiter' = arbiter
        BY <3>1, <3>3 DEF Displaced
      <4>2. \A d \in Connections : session'[d] = session[d]
        BY <1>1, <3>2, <3>3 DEF AdmissionInv, Blank
      <4>3. AdmissionInv'
        BY <1>1, <3>2, <4>1, <4>2 DEF AdmissionInv
      <4> QED
        BY <1>4, <2>2, <3>2, <4>1, <4>3 DEF Active
    <3>4. CASE session[c].phase # "closed"
      <4>1. arbiter' = EndPairing(arbiter, c)
        BY <3>1, <3>4 DEF Displaced
      <4>2. session[c].phase \in {"handshake", "opening", "active"}
        BY <1>1, <2>2, <3>4 DEF SinkInv, Presence, Sessions, Phases
      <4>3. /\ AdmissionInv'
            /\ \A d \in Connections : Holds(arbiter', d) <=> Holds(arbiter, d)
            /\ \A d \in Connections \ {c} : InProgress(arbiter', d) <=> InProgress(arbiter, d)
        BY <1>1, <3>1, <4>1, <4>2, EndingStep
      <4> QED
        BY <1>4, <2>2, <3>2, <3>4, <4>3 DEF Active
    <3> QED
      BY <3>3, <3>4
  <2> QED
    BY <2>1, <2>2
<1>6. ActiveIsHeld'
  <2> SUFFICES ASSUME NEW d \in Connections, Active(d)', ~Leaving(d)'
               PROVE  Holds(arbiter', d)
    BY DEF ActiveIsHeld
  <2>1. d # c
    BY <1>5
  <2>2. Active(d) /\ ~Leaving(d)
    BY <1>1, <1>3, <1>5, <2>1 DEF Active, Leaving
  <2> QED
    BY <1>5, <2>2 DEF SinkInv, ActiveIsHeld
<1>7. LeftAlone
  BY <1>5 DEF LeftAlone
<1>8. Presence'
  BY <1>1, <1>3, <1>5 DEF SinkInv, Presence
<1> QED
  BY <1>1, <1>3, <1>5, <1>6, <1>7, <1>8 DEF SinkInv

LEMMA RunRemoveKeeps ==
    ASSUME SinkInv, NEW c \in Connections, RunRemove(c)
    PROVE  SinkInv' /\ LeftAlone
<1> DEFINE w == [op |-> "remove", id |-> c]
<1>1. /\ posted \in Seq(Work) /\ posted # <<>> /\ Head(posted) = w /\ posted' = Tail(posted)
      /\ removing = Nobody /\ removing' = c /\ listed' = listed \ {c}
      /\ arbiter' = arbiter /\ session' = session /\ ended' = ended /\ visiting' = visiting
  BY DEF RunRemove, Takes, SinkInv
<1>2. \A d : w # [op |-> "displace", id |-> d]
  <2>1. \A d : w.op # [op |-> "displace", id |-> d].op
    OBVIOUS
  <2> QED
    BY <2>1
<1> HIDE DEF w
<1>3. /\ posted' \in Seq(Work)
      /\ \A d : Posted("displace", d) => Posted("displace", d)'
      /\ \A d : Posted("remove", d)' => Posted("remove", d)
  BY <1>1, <1>2, PostedTail
<1>4. c \in ended
  <2>1. Posted("remove", c)
    BY <1>1, PostedTail DEF w
  <2> QED
    BY <2>1 DEF SinkInv, Presence
<1>5. AdmissionInv'
  BY <1>1 DEF SinkInv, AdmissionInv
<1>6. ActiveIsHeld' /\ LeftAlone
  BY <1>1, <1>3 DEF SinkInv, ActiveIsHeld, Active, Leaving, LeftAlone
<1>7. Presence'
  <2>1. \A d \in Connections : d # removing
    BY <1>1, SinkAssumption
  <2> QED
    BY <1>1, <1>3, <1>4, <2>1 DEF SinkInv, Presence
<1> QED
  BY <1>1, <1>3, <1>5, <1>6, <1>7 DEF SinkInv

\* The arbiter is told of the end of a connection that is in nobody's list.
LEMMA TellEndedKeeps ==
    ASSUME SinkInv, TellEnded
    PROVE  SinkInv' /\ LeftAlone
<1>1. PICK c \in Connections : c = removing
  BY DEF TellEnded, SinkInv
<1>2. /\ AdmissionInv /\ session \in [Connections -> Sessions] /\ arbiter' = Ended(arbiter, c)
      /\ session' = session \/ session' = [session EXCEPT ![c] = In("gone")]
      /\ posted' = posted /\ ended' = ended /\ listed' = listed /\ visiting' = visiting
      /\ removing' = Nobody
  BY <1>1 DEF TellEnded, SinkInv, AdmissionInv
<1>3. c \in ended /\ c \notin listed
  BY <1>1, SinkAssumption DEF SinkInv, Presence
<1>4. In("gone") \in Sessions /\ Blank(In("gone")) /\ In("gone").phase = "gone"
  BY InType DEF Phases
<1>5. /\ session' \in [Connections -> Sessions] /\ Blank(session'[c])
      /\ session'[c] = session[c] \/ session'[c].phase = "gone"
      /\ \A d \in Connections \ {c} : session'[d] = session[d]
  BY <1>2, <1>4 DEF AdmissionInv
<1>6. /\ ArbiterInv(arbiter') /\ ~Holds(arbiter', c)
      /\ \A d \in Connections \ {c} :
            /\ Holds(arbiter', d) <=> Holds(arbiter, d)
            /\ RankIn(arbiter', d) = RankIn(arbiter, d) \/ ~Holds(arbiter, d)
            /\ InProgress(arbiter', d) <=> InProgress(arbiter, d)
  BY <1>2, EndedFacts DEF AdmissionInv
<1>7. \A d \in Connections \ {c} : NoNews(arbiter, arbiter', d)
  BY <1>6 DEF NoNews
<1>8. Told(arbiter', session'[c], c)
  BY <1>6 DEF Told
<1>9. AdmissionInv'
  BY <1>2, <1>5, <1>6, <1>7, <1>8, StepKeeps
<1>10. ActiveIsHeld'
  <2> SUFFICES ASSUME NEW d \in Connections, Active(d)', ~Leaving(d)'
               PROVE  Holds(arbiter', d)
    BY DEF ActiveIsHeld
  <2>1. d # c
    BY <1>2, <1>3 DEF Leaving
  <2>2. Active(d) /\ ~Leaving(d)
    BY <1>2, <1>5, <2>1 DEF Active, Leaving, Posted
  <2> QED
    BY <1>6, <2>1, <2>2 DEF SinkInv, ActiveIsHeld
<1>11. LeftAlone
  BY <1>1, <1>3, <1>6 DEF LeftAlone
<1>12. Presence'
  BY <1>1, <1>2, <1>3, <1>5, <1>6 DEF SinkInv, Presence, Posted
<1> QED
  BY <1>2, <1>9, <1>10, <1>11, <1>12 DEF SinkInv

\* What is destroyed is not held any more.
LEMMA DestroyKeeps ==
    ASSUME SinkInv, NEW c \in Connections, Destroy(c)
    PROVE  SinkInv' /\ LeftAlone
<1>1. /\ AdmissionInv /\ session \in [Connections -> Sessions] /\ arbiter' = arbiter
      /\ session' = [session EXCEPT ![c] = In("gone")]
      /\ posted' = posted /\ ended' = ended /\ listed' = listed /\ visiting' = visiting
      /\ removing' = removing
      /\ session[c].phase \notin {"absent", "gone"} /\ c \notin listed /\ c # removing
  BY DEF Destroy, sinkVars, SinkInv, AdmissionInv
<1>2. In("gone") \in Sessions /\ Blank(In("gone")) /\ In("gone").phase = "gone"
  BY InType DEF Phases
<1>3. /\ session' \in [Connections -> Sessions] /\ session'[c] = In("gone")
      /\ \A d \in Connections \ {c} : session'[d] = session[d]
  BY <1>1, <1>2
<1>4. ~Holds(arbiter, c)
  BY <1>1 DEF SinkInv, Presence
<1>5. AdmissionInv'
  BY <1>1, <1>2, <1>3, <1>4, StepKeeps DEF AdmissionInv, Told, NoNews
<1>6. ActiveIsHeld' /\ LeftAlone
  BY <1>1, <1>2, <1>3 DEF SinkInv, ActiveIsHeld, Active, Leaving, Posted, LeftAlone
<1>7. Presence'
  BY <1>1, <1>2, <1>3 DEF SinkInv, Presence, Posted
<1> QED
  BY <1>1, <1>5, <1>6, <1>7 DEF SinkInv

----------------------------------------------------------------------------
LEMMA SinkInitInv == SinkInit => SinkInv
<1> SUFFICES ASSUME SinkInit PROVE SinkInv
  OBVIOUS
<1>1. PICK last \in Servers \cup {NoServer} : arbiter = New(last)
  BY DEF SinkInit
<1>2. In("absent") \in Sessions /\ Blank(In("absent")) /\ In("absent").phase = "absent"
  BY InType DEF Phases
<1>3. ArbiterInv(arbiter) /\ \A c : ~Holds(arbiter, c)
  BY <1>1, NewFacts
<1>4. AdmissionInv /\ ActiveIsHeld
  BY <1>2, <1>3 DEF SinkInit, AdmissionInv, Told, ActiveIsHeld, Active
<1>5. posted \in Seq(Work) /\ \A d : ~Posted("remove", d)
  BY EmptySeq DEF SinkInit, Posted
<1>6. Presence
  BY <1>2, <1>3, <1>5 DEF SinkInit, Presence
<1> QED
  BY <1>4, <1>5, <1>6 DEF SinkInit, SinkInv

LEMMA SinkNextKeeps == SinkInv /\ [SinkNext]_vars => SinkInv' /\ LeftAlone
<1> SUFFICES ASSUME SinkInv, [SinkNext]_vars PROVE SinkInv' /\ LeftAlone
  OBVIOUS
<1>1. CASE SinkNext
  BY <1>1, AcceptKeeps, ActivateKeeps, SessionStepKeeps, DriverEndsKeeps,
     RunDisplaceKeeps, RunRemoveKeeps, TellEndedKeeps, DestroyKeeps, OperatorKeeps
  DEF SinkNext, RunPosted
<1>2. CASE UNCHANGED vars
  BY <1>2
  DEF vars, sinkVars, SinkInv, AdmissionInv, ActiveIsHeld, Active, Leaving, Posted,
      Presence, LeftAlone
<1> QED
  BY <1>1, <1>2

LEMMA SinkAlways == SinkSpec => []SinkInv
BY SinkInitInv, SinkNextKeeps, PTL DEF SinkSpec

\* Readers, worker and operator leave the sink's state well formed, and no session
\* keeps a declaration or an attempt it is not active for.
THEOREM SinkTypeCorrect == SinkSpec => []SinkTypeOK
<1>1. SinkInv => SinkTypeOK
  BY DEF SinkInv, SinkTypeOK, AdmissionInv, AdmissionTypeOK, TypeOK, ArbiterInv,
         NothingCarried, Blank, Active
<1> QED
  BY <1>1, SinkAlways, PTL

\* A session that acts as admitted is held, or its displacement or its end is
\* with the worker.
THEOREM SinkActiveIsHeld == SinkSpec => []ActiveIsHeld
<1>1. SinkInv => ActiveIsHeld
  BY DEF SinkInv
<1> QED
  BY <1>1, SinkAlways, PTL

\* But for those leaving, one session declares playback and two are active.
THEOREM SinkOnePlays == SinkSpec => []OnePlays
<1>1. SinkInv => OnePlays
  <2> SUFFICES ASSUME SinkInv PROVE OnePlays
    OBVIOUS
  <2> DEFINE active == {c \in Connections : Active(c) /\ ~Leaving(c)}
             playing == {c \in Connections : Declares(c, Playback) /\ ~Leaving(c)}
  <2>1. AdmissionInv /\ \A c \in Connections : Active(c) /\ ~Leaving(c) => Holds(arbiter, c)
    BY DEF SinkInv, ActiveIsHeld
  <2>2. Cardinality(active) <= 2
    BY <2>1, FewHeld
  <2>3. Cardinality(playing) <= 1
    BY <2>1, FewHeld DEF Declares
  <2> QED
    BY <2>2, <2>3 DEF OnePlays
<1> QED
  BY <1>1, SinkAlways, PTL

\* No other connection, no call of the operator's and none of the worker's but the
\* removal of its own ended connection takes a running attempt out of the arbiter.
THEOREM SinkAttemptLeftAlone == SinkSpec => AttemptLeftAlone
<1>1. SinkInv /\ [SinkNext]_vars =>
        [\A c \in Connections :
            InProgress(arbiter, c) /\ session'[c] = session[c] =>
                InProgress(arbiter', c) \/ (removing = c /\ c \in ended)]_<<arbiter, session>>
  BY SinkNextKeeps DEF LeftAlone
<1> QED
  BY <1>1, SinkAlways, PTL DEF SinkSpec, AttemptLeftAlone

\* The arbiter shields a connection only while its session runs an attempt.
THEOREM SinkAttemptReported == SinkSpec => []AttemptReported
<1>1. SinkInv => AttemptReported
  BY ReportedFollows DEF SinkInv
<1> QED
  BY <1>1, SinkAlways, PTL
=============================================================================
