--------------------------- MODULE ClientPairing ---------------------------
(***************************************************************************)
(* The client's side of Sendspin pairing: one attempt per connection       *)
(* (class ClientPairing) and the state its attempts share across           *)
(* connections (struct ClientPairingState): the rounds since a code was    *)
(* last verified, and the static code's window.                            *)
(*                                                                         *)
(* Cryptography is modelled by what it decides.  A round's CPace exchange  *)
(* is named by its sid, the pairing index and the round; two parties       *)
(* derive one key exactly when they used the same code under the same sid  *)
(* and heard each other's shares.  A long-term PSK is named by the attempt *)
(* that drew it.  Clocks are left out: a timeout that may expire is an     *)
(* action that may happen.                                                 *)
(*                                                                         *)
(* Handlers are state functions returning a Step; Spec runs them against   *)
(* servers that may send anything at all, PairingFlow against ServerPairing*)
(***************************************************************************)
EXTENDS Integers, Sequences, FiniteSets

CONSTANTS
    Connections,
    Nobody,             \* no connection
    Methods,            \* what a pairing activation may name
    Dialect,            \* "specification" or "aiosendspin911"
    RoundLimit,         \* ClientPairingState::kRoundLimit
    WindowFailures,     \* ClientPairingState::kWindowFailures
    MaxIndex,           \* bound: pairing activations since a handshake
    MaxRounds,          \* bound: rounds of one attempt
    MaxActs             \* bound: the operator's gestures and resets

ASSUME PairingAssumption ==
    /\ Nobody \notin Connections /\ IsFiniteSet(Connections)
    /\ Methods \subseteq {"psk", "dynamic", "static"}
    /\ Dialect \in {"specification", "aiosendspin911"}
    /\ RoundLimit \in Nat \ {0} /\ WindowFailures \in Nat \ {0}
    /\ MaxIndex \in Nat \ {0} /\ MaxRounds \in Nat \ {0} /\ MaxActs \in Nat

VARIABLES
    shared,         \* ClientPairingState
    attempt,        \* attempt_ of each connection's session
    pairingIndex,   \* pairing_index_ of each connection's session
    live,           \* connections whose session has not closed
    resuming,       \* connections resume_pairing() is still to be called on
    acts            \* how often the operator has acted

clientVars == <<shared, attempt, pairingIndex, live, resuming, acts>>

States == {"none", "pending", "serverInit", "auth", "confirm", "finalize", "done"}

NoSid   == <<0, 0>>
NoEntry == [sid |-> NoSid, code |-> "wrong"]

NoAttempt == [state |-> "none", method |-> "psk", index |-> 0, round |-> 0, heard |-> NoEntry]

\* in_progress(): from the attempt's first message until it ends.
InProgress(a) == a.state \in {"serverInit", "auth", "confirm", "finalize"}
Sid(a)        == <<a.index, a.round>>

----------------------------------------------------------------------------
(* ClientPairingState.                                                     *)

HoldingBack(sh)   == sh.rounds >= RoundLimit
\* Mutation: failures do not close the window.
WindowOpenStill(sh, c) == sh.open /\ sh.boundTo \in {Nobody, c}

WindowOpen(sh, c) == /\ sh.open
                     /\ sh.failures < WindowFailures
                     /\ sh.boundTo \in {Nobody, c}
CloseWindow(sh)   == [sh EXCEPT !.open = FALSE, !.boundTo = Nobody]
Dropped(sh, c)    == IF sh.boundTo = c THEN CloseWindow(sh) ELSE sh

----------------------------------------------------------------------------
(* The messages of an attempt, and what a handler returns: the attempt and *)
(* the shared state afterwards, the messages to send, and what becomes of  *)
(* the connection ("error" is a close for a protocol error).               *)

PairPending(i)     == [type |-> "pending", index |-> i]
PairInit(i, m)     == [type |-> "init", index |-> i, commit |-> m = "dynamic"]
PairAuth(sid)      == [type |-> "auth", sid |-> sid]
PairConfirm(sid)   == [type |-> "confirm", sid |-> sid]
PairRetry          == [type |-> "retry"]
PairFinalize(i, w) == [type |-> "finalize", psk |-> i, wrap |-> w]
PairAbort(reason)  == [type |-> "abort", reason |-> reason]

Step(after, a, sh, out) == [after |-> after, attempt |-> a, shared |-> sh, out |-> out]

Done(a) == [NoAttempt EXCEPT !.state = "done"]

Abort(a, sh, reason) ==
    Step(IF reason = "concurrent" THEN "close" ELSE "ended",
         Done(a), sh, <<PairAbort(reason)>>)

ProtocolError(a, sh) == Step("error", Done(a), sh, <<>>)

MayStart(a, sh, c) == IF a.method = "static" THEN WindowOpen(sh, c) ELSE ~HoldingBack(sh)

BeginAttempt(a, sh, c) ==
    LET begun == [a EXCEPT !.round = 1, !.state = IF a.method = "dynamic" THEN "serverInit" ELSE "auth"]
        bound == IF a.method = "static" /\ sh.boundTo = Nobody THEN [sh EXCEPT !.boundTo = c] ELSE sh
    IN  Step("continue", begun, bound, <<PairInit(a.index, a.method)>>)

\* The activation named a method; the Pairing PSK's has no more to wait for.
Start(method, index, sh, c) ==
    LET a == [NoAttempt EXCEPT !.method = method, !.index = index]
    IN  IF method = "psk"
          THEN Step("continue", [a EXCEPT !.state = "finalize"], sh, <<PairFinalize(index, NoSid)>>)
        ELSE IF MayStart(a, sh, c) THEN BeginAttempt(a, sh, c)
        ELSE Step("continue", [a EXCEPT !.state = "pending"], sh, <<PairPending(index)>>)

Resume(a, sh, c) ==
    IF a.state = "pending" /\ MayStart(a, sh, c) THEN BeginAttempt(a, sh, c)
    ELSE Step("continue", a, sh, <<>>)

\* Mutation: the proof is checked against the share, whatever the code.
VerifiesShare(a, m) == a.heard = m.entry

\* verify() on server_kc: the server used this round's sid and the right code,
\* and it is the server whose share was heard.
Verifies(a, m) == /\ m.entry = [sid |-> Sid(a), code |-> "right"]
                  /\ a.heard = m.entry

\* Mutation: rounds of one attempt are unlimited.
MismatchAnyRound(a, sh) ==
    IF a.method = "static"
      THEN Abort(a, [sh EXCEPT !.failures = @ + 1], "mismatch")
    ELSE Step("continue", [a EXCEPT !.round = @ + 1, !.state = "serverInit", !.heard = NoEntry],
              sh, <<PairRetry>>)

\* server_kc failed.  The static code has one try an attempt; the dynamic one
\* is entered again in a new round, until the round limit.
Mismatch(a, sh) ==
    IF a.method = "static"
      THEN Abort(a, [sh EXCEPT !.failures = @ + 1], "mismatch")
    ELSE IF HoldingBack(sh) \/ Dialect = "aiosendspin911"
      THEN Abort(a, sh, "mismatch")
    ELSE Step("continue", [a EXCEPT !.round = @ + 1, !.state = "serverInit", !.heard = NoEntry],
              sh, <<PairRetry>>)

Verified(a, sh) ==
    Step("continue", [a EXCEPT !.state = "finalize", !.heard = NoEntry],
         IF a.method = "dynamic" THEN [sh EXCEPT !.rounds = 0] ELSE sh,
         <<PairConfirm(Sid(a)), PairFinalize(a.index, Sid(a))>>)

\* Mutation: the rounds left are counted, from none.
RoundBeginsLeft(a, sh) ==
    Step("continue", [a EXCEPT !.state = "auth"], [sh EXCEPT !.rounds = @ - 1], <<>>)

\* The round begins and its code is shown: it counts however it ends.
RoundBegins(a, sh) ==
    Step("continue", [a EXCEPT !.state = "auth"], [sh EXCEPT !.rounds = @ + 1], <<>>)

Receive(a, sh, m) ==
    IF a.state = "done" THEN Step("continue", a, sh, <<>>)
    ELSE IF m.type = "abort"
      THEN Step(IF m.reason = "concurrent" THEN "close" ELSE "ended", Done(a), sh, <<>>)
    ELSE IF a.state = "serverInit" /\ m.type = "init" /\ (m.nonce <=> a.round = 1)
      THEN RoundBegins(a, sh)
    ELSE IF a.state = "auth" /\ m.type = "auth"
      THEN Step("continue", [a EXCEPT !.state = "confirm", !.heard = m.entry], sh, <<PairAuth(Sid(a))>>)
    ELSE IF a.state = "confirm" /\ m.type = "confirm"
      THEN IF Verifies(a, m) THEN Verified(a, sh) ELSE Mismatch(a, sh)
    ELSE IF a.state = "finalize" /\ m.type = "finalize"
      THEN Step("paired", Done(a), IF a.method = "static" THEN CloseWindow(sh) ELSE sh, <<>>)
    ELSE ProtocolError(a, sh)

Cancel(a, sh) == IF a.state \in {"none", "done"} THEN Step("continue", a, sh, <<>>)
                 ELSE Abort(a, sh, "cancelled")

----------------------------------------------------------------------------
(* Several connections, to servers that may send any pairing message.  The  *)
(* owner takes its lock once for the operator's act and again for each      *)
(* connection it then resumes (Sink::open_window).                          *)

\* What a server enters either is what the attempt is waiting for or is not.
Entries(a) == {[sid |-> Sid(a), code |-> "right"], NoEntry}

ServerMessages(a) ==
    [type : {"init"}, nonce : BOOLEAN] \cup [type : {"auth", "confirm"}, entry : Entries(a)]
        \cup [type : {"finalize"}] \cup [type : {"abort"}, reason : {"concurrent", "cancelled"}]

\* pairing_step: the session closes with its attempt, or goes on.
Takes(c, step) ==
    /\ c \in live
    /\ step.attempt.round <= MaxRounds
    /\ attempt' = [attempt EXCEPT ![c] = step.attempt]
    /\ shared' = step.shared
    /\ live' = IF step.after \in {"close", "error"} THEN live \ {c} ELSE live

ClientInit ==
    /\ shared = [rounds |-> 0, open |-> FALSE, failures |-> 0, boundTo |-> Nobody]
    /\ attempt = [c \in Connections |-> NoAttempt]
    /\ pairingIndex = [c \in Connections |-> 0]
    /\ live = Connections /\ resuming = {} /\ acts = 0

\* A pairing activation ends the attempt there was and starts another.
ActivatedFor(c, method) ==
    /\ pairingIndex[c] < MaxIndex
    /\ pairingIndex' = [pairingIndex EXCEPT ![c] = @ + 1]
    /\ Takes(c, Start(method, pairingIndex[c] + 1, shared, c))
    /\ UNCHANGED <<resuming, acts>>

\* Any other activation leaves no attempt; a re-handshake counts anew as well.
Abandoned(c) ==
    /\ c \in live
    /\ attempt' = [attempt EXCEPT ![c] = NoAttempt]
    /\ \E i \in {0, pairingIndex[c]} : pairingIndex' = [pairingIndex EXCEPT ![c] = i]
    /\ UNCHANGED <<shared, live, resuming, acts>>

Receives(c) ==
    /\ attempt[c].state # "none"
    /\ \E m \in ServerMessages(attempt[c]) : Takes(c, Receive(attempt[c], shared, m))
    /\ UNCHANGED <<pairingIndex, resuming, acts>>

Resumes(c) ==
    /\ c \in resuming /\ resuming' = resuming \ {c}
    /\ Takes(c, Resume(attempt[c], shared, c))
    /\ UNCHANGED <<pairingIndex, acts>>

Cancels(c) == Takes(c, Cancel(attempt[c], shared)) /\ UNCHANGED <<pairingIndex, resuming, acts>>

\* tick(): two minutes from the attempt's first message.
TimesOut(c) ==
    /\ InProgress(attempt[c])
    /\ Takes(c, Abort(attempt[c], shared, "timeout"))
    /\ UNCHANGED <<pairingIndex, resuming, acts>>

\* The connection goes (~PlayerSession), and a new one takes its place.
Drops(c) ==
    /\ attempt' = [attempt EXCEPT ![c] = NoAttempt]
    /\ shared' = Dropped(shared, c)
    /\ pairingIndex' = [pairingIndex EXCEPT ![c] = 0]
    /\ live' = live \cup {c} /\ resuming' = resuming \ {c}
    /\ UNCHANGED acts

OperatorActs(sh) ==
    /\ acts < MaxActs /\ acts' = acts + 1
    /\ shared' = sh /\ resuming' = live
    /\ UNCHANGED <<attempt, pairingIndex, live>>

OpensWindow  == OperatorActs([shared EXCEPT !.open = TRUE, !.failures = 0, !.boundTo = Nobody])
ResetsRounds == OperatorActs([shared EXCEPT !.rounds = 0])

\* kWindowLifetime passes.
WindowExpires ==
    /\ shared.open
    /\ shared' = [shared EXCEPT !.open = FALSE]
    /\ UNCHANGED <<attempt, pairingIndex, live, resuming, acts>>

ClientNext ==
    \/ \E c \in Connections :
          \/ \E method \in Methods : ActivatedFor(c, method)
          \/ Receives(c) \/ Abandoned(c) \/ Resumes(c) \/ Cancels(c) \/ TimesOut(c) \/ Drops(c)
    \/ OpensWindow \/ ResetsRounds \/ WindowExpires

ClientSpec == ClientInit /\ [][ClientNext]_clientVars

----------------------------------------------------------------------------
AttemptRecords ==
    [state : States, method : {"psk", "dynamic", "static"}, index : Nat,
     round : Nat, heard : [sid : Nat \X Nat, code : {"right", "wrong"}]]

ClientTypeOK ==
    /\ shared \in [rounds : Nat, open : BOOLEAN, failures : Nat, boundTo : Connections \cup {Nobody}]
    /\ attempt \in [Connections -> AttemptRecords]
    /\ pairingIndex \in [Connections -> Nat]
    /\ live \subseteq Connections /\ resuming \subseteq Connections
    /\ acts \in Nat

\* However servers share, abandon and restart the attempts, the codes shown
\* since one was last verified stay within the round limit, but for one round
\* of each attempt that had begun on another connection before it was reached.
RoundsBounded == shared.rounds <= RoundLimit + Cardinality(Connections) - 1

\* The static code bears WindowFailures wrong guesses a gesture; on top come
\* only the attempts other connections were already running at the gesture.
FailuresBounded == shared.failures <= WindowFailures + Cardinality(Connections) - 1
=============================================================================
