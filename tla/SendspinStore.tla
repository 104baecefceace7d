---------------------------- MODULE SendspinStore ----------------------------
(***************************************************************************)
(* What the ESP32 board keeps across a restart (class SendspinStore): its  *)
(* identity and Pairing PSK, its pairing records in the order of their use,*)
(* the servers' names, and the last-playback server.                       *)
(*                                                                         *)
(* A call holds the store's mutex, changes what is in RAM and then writes  *)
(* the blobs that changed to flash, one after another.  Flash may refuse   *)
(* any of them, and the power may go between any two: one step per blob.   *)
(***************************************************************************)
EXTENDS Naturals, SequencesExt

CONSTANTS
    Servers,        \* server keys
    NoServer,       \* std::nullopt for the last-playback server
    Secrets,        \* long-term PSKs a pairing can end with
    Keys,           \* what create_keys() can make: an identity or a Pairing PSK
    NoKey,          \* none stored
    Capacity        \* kRecordCapacity

ASSUME StoreAssumption ==
    /\ NoServer \notin Servers /\ NoKey \notin Keys
    /\ Capacity \in Nat \ {0}

Blobs   == {"identity", "psk", "records", "names", "last"}
Records == [server : Servers, secret : Secrets]

VARIABLES
    ram,            \* the object's fields
    flash,          \* the blobs in NVS
    call,           \* the call that holds the mutex, and the blobs it has yet to write
    behind,         \* history: blobs whose last write flash refused or a call gave up
    paired,         \* history: records add_record() returned true for, and still held
    removed         \* history: servers remove_record() or forget() took out, all of it written

vars == <<ram, flash, call, behind, paired, removed>>

Ops  == {"down", "idle", "load", "add", "save", "remove", "forget"}
Down == [op |-> "down", server |-> NoServer, left |-> <<>>, names |-> {}, ok |-> TRUE]
Idle == [Down EXCEPT !.op = "idle"]

Blank == [identity |-> NoKey, psk |-> NoKey, records |-> <<>>, last |-> NoServer]

Has(recs, s) == \E i \in 1..Len(recs) : recs[i].server = s
At(recs, s)  == CHOOSE i \in 1..Len(recs) : recs[i].server = s

----------------------------------------------------------------------------
(* PairingRecords: the least recently used first.                          *)

Without(recs, s) == IF Has(recs, s) THEN RemoveAt(recs, At(recs, s)) ELSE recs

Unused(recs, inUse) == {i \in 1..Len(recs) : recs[i].server \notin inUse}

\* The least recently used record no open connection rests on; the least
\* recently used one when there is none such.
Victim(recs, inUse) ==
    IF Unused(recs, inUse) = {} THEN 1
    ELSE CHOOSE i \in Unused(recs, inUse) : \A j \in Unused(recs, inUse) : i <= j

Added(recs, s, k, inUse) ==
    LET others == Without(recs, s)
        kept   == IF Len(others) < Capacity THEN others
                  ELSE RemoveAt(others, Victim(others, inUse))
    IN  Append(kept, [server |-> s, secret |-> k])

Touched(recs, s) == Append(Without(recs, s), recs[At(recs, s)])

----------------------------------------------------------------------------
Init ==
    /\ ram = Blank
    /\ flash = [identity |-> NoKey, psk |-> NoKey, records |-> <<>>,
                names |-> {}, last |-> NoServer]
    /\ call = Down /\ behind = {} /\ paired = {} /\ removed = {}

\* A call about `s` that changed RAM goes on to write the blobs `left`.
Goes(op, s, left, names, ok) ==
    call' = [op |-> op, server |-> s, left |-> left, names |-> names, ok |-> ok]

\* Keys found nowhere on the board: what random_bytes() makes.
Fresh == Keys \ {ram.identity, ram.psk, flash.identity, flash.psk}

\* load() with both keys stored.
Load ==
    /\ call = Down /\ flash.identity # NoKey /\ flash.psk # NoKey
    /\ ram' = [identity |-> flash.identity, psk |-> flash.psk,
               records |-> flash.records, last |-> flash.last]
    /\ call' = Idle
    /\ UNCHANGED <<flash, behind, paired, removed>>

AllBlobs == <<"identity", "psk", "records", "names", "last">>

\* load() on a first boot, after a power loss between the two keys' writes, or
\* where NVS does not open or a key does not read: the board becomes a new one,
\* whose pairings of before are void.
LoadNew ==
    /\ call = Down
    /\ \E k \in Fresh :
          ram' = [identity |-> k, psk |-> k, records |-> <<>>, last |-> NoServer]
    /\ Goes("load", NoServer, AllBlobs, {}, TRUE)
    /\ paired' = {}
    /\ UNCHANGED <<flash, behind, removed>>

AddRecord(s, k, inUse) ==
    /\ call = Idle
    /\ ram' = [ram EXCEPT !.records = Added(@, s, k, inUse)]
    /\ Goes("add", s, <<"records">>, {}, TRUE)
    /\ paired' = {p \in paired : p \in Range(ram'.records)}
    /\ removed' = removed \ {s}
    /\ UNCHANGED <<flash, behind>>

\* Mutation: the new order is not written.
TouchInRam(s) ==
    /\ call = Idle /\ Has(ram.records, s)
    /\ ram' = [ram EXCEPT !.records = Touched(@, s)]
    /\ UNCHANGED <<flash, call, behind, paired, removed>>

\* touch() of a record that is not the last already.
Touch(s) ==
    /\ call = Idle /\ Has(ram.records, s) /\ At(ram.records, s) # Len(ram.records)
    /\ ram' = [ram EXCEPT !.records = Touched(@, s)]
    /\ Goes("save", s, <<"records">>, {}, TRUE)
    /\ UNCHANGED <<flash, behind, paired, removed>>

\* The names of records gone since the last write go with this one.
SetName(s) ==
    /\ call = Idle /\ Has(ram.records, s)
    /\ Goes("save", s, <<"names">>, {n \in flash.names : Has(ram.records, n)} \cup {s}, TRUE)
    /\ UNCHANGED <<ram, flash, behind, paired, removed>>

SetLastPlayback(s) ==
    /\ call = Idle /\ ram.last # s
    /\ ram' = [ram EXCEPT !.last = s]
    /\ Goes("save", s, <<"last">>, {}, TRUE)
    /\ removed' = removed \ {s}
    /\ UNCHANGED <<flash, behind, paired>>

\* Mutation: the last-playback server goes in RAM only.
RemoveRecordOnly(s) ==
    /\ call = Idle /\ Has(ram.records, s)
    /\ ram' = [ram EXCEPT !.records = Without(@, s),
                          !.last = IF @ = s THEN NoServer ELSE @]
    /\ \E readable \in BOOLEAN :
          Goes("remove", s,
               IF readable /\ s \in flash.names THEN <<"records", "names">> ELSE <<"records">>,
               flash.names \ {s}, readable)
    /\ paired' = {p \in paired : p.server # s}
    /\ UNCHANGED <<flash, behind, removed>>

\* The names are read from flash first; with no memory, or flash unreadable,
\* they stay as they are.
RemoveRecord(s) ==
    /\ call = Idle /\ Has(ram.records, s)
    /\ ram' = [ram EXCEPT !.records = Without(@, s),
                          !.last = IF @ = s THEN NoServer ELSE @]
    /\ \E readable \in BOOLEAN :
          Goes("remove", s,
               <<"records">> \o (IF readable /\ s \in flash.names THEN <<"names">> ELSE <<>>)
                             \o (IF ram.last = s THEN <<"last">> ELSE <<>>),
               flash.names \ {s}, readable)
    /\ paired' = {p \in paired : p.server # s}
    /\ UNCHANGED <<flash, behind, removed>>

Forget ==
    /\ call = Idle
    /\ \E k \in Fresh :
          ram' = [identity |-> k, psk |-> k, records |-> <<>>, last |-> NoServer]
    /\ Goes("forget", NoServer, AllBlobs, {}, TRUE)
    /\ paired' = {}
    /\ UNCHANGED <<flash, behind, removed>>

\* forget() without random bytes gives up before its first write.
ForgetFails ==
    /\ call = Idle
    /\ ram' = [ram EXCEPT !.records = <<>>, !.last = NoServer]
    /\ behind' = behind \cup {"records", "last"}
    /\ paired' = {}
    /\ UNCHANGED <<flash, call, removed>>

----------------------------------------------------------------------------
(* The writes.                                                             *)

Blob == Head(call.left)

Value(b) == IF b = "names" THEN call.names ELSE ram[b]

\* Whether the rest of the call depends on this write: forget()'s, and the keys' at a boot.
Needed == call.op = "forget" \/ (call.op = "load" /\ Blob \in {"identity", "psk"})

\* The call is over, with `late` the blobs flash has an older value of.
Returns(ok, late) ==
    /\ call' = IF call.op = "load" /\ Blob \in {"identity", "psk"} THEN Down ELSE Idle
    /\ ram' = IF call' = Down THEN Blank ELSE ram
    /\ paired' = IF call.op = "add" /\ ok THEN paired \cup {ram.records[Len(ram.records)]}
                 ELSE paired
    /\ removed' = IF ~ok \/ "last" \in late THEN removed
                  ELSE IF call.op = "forget" THEN Servers
                  ELSE IF call.op = "remove" THEN removed \cup {call.server}
                  ELSE removed

GoesOn(ok) ==
    /\ call' = [call EXCEPT !.left = Tail(@), !.ok = ok]
    /\ UNCHANGED <<ram, paired, removed>>

\* Mutation: what flash answers is not looked at.
RefusedUnseen ==
    /\ call.left # <<>>
    /\ behind' = behind \cup {Blob}
    /\ IF Len(call.left) = 1 THEN Returns(call.ok, behind') ELSE GoesOn(call.ok)
    /\ UNCHANGED flash

\* Flash refuses the blob.  Of a chain of writes the rest is not tried.
Refused ==
    /\ call.left # <<>>
    /\ behind' = behind \cup (IF Needed THEN Range(call.left) ELSE {Blob})
    /\ IF Needed \/ Len(call.left) = 1 THEN Returns(FALSE, behind') ELSE GoesOn(FALSE)
    /\ UNCHANGED flash

Written ==
    /\ call.left # <<>>
    /\ flash' = [flash EXCEPT ![Blob] = Value(Blob)]
    /\ behind' = behind \ {Blob}
    /\ IF Len(call.left) = 1 THEN Returns(call.ok, behind') ELSE GoesOn(call.ok)

\* Power loss at any step, or the host's stop(): the next load() reads what is
\* in flash.
PowerLoss ==
    /\ call # Down
    /\ call' = Down /\ ram' = Blank /\ behind' = {}
    /\ UNCHANGED <<flash, paired, removed>>

Recorded == {r.server : r \in Range(ram.records)}

\* Of the servers in use only those with a record matter.
Call ==
    \/ Load \/ LoadNew \/ Forget \/ ForgetFails
    \/ \E s \in Servers :
          \/ Touch(s) \/ SetName(s) \/ SetLastPlayback(s) \/ RemoveRecord(s)
          \/ \E k \in Secrets, inUse \in SUBSET Recorded : AddRecord(s, k, inUse)

Next == Call \/ Written \/ Refused \/ PowerLoss

Spec == Init /\ [][Next]_vars

----------------------------------------------------------------------------
KeyOrNone    == Keys \cup {NoKey}
ServerOrNone == Servers \cup {NoServer}

\* No server has two records, and there are never more than fit.
WellKept(recs) ==
    /\ recs \in Seq(Records) /\ Len(recs) <= Capacity
    /\ \A i, j \in 1..Len(recs) : recs[i].server = recs[j].server => i = j

StoreTypeOK ==
    /\ ram \in [identity : KeyOrNone, psk : KeyOrNone, records : Seq(Records), last : ServerOrNone]
    /\ flash \in [identity : KeyOrNone, psk : KeyOrNone, records : Seq(Records),
                  names : SUBSET Servers, last : ServerOrNone]
    /\ WellKept(ram.records) /\ WellKept(flash.records)
    /\ call \in [op : Ops, server : ServerOrNone, left : Seq(Blobs),
                 names : SUBSET Servers, ok : BOOLEAN]
    /\ (call.left = <<>>) = (call.op \in {"down", "idle"})
    /\ behind \subseteq Blobs /\ paired \subseteq Records /\ removed \subseteq Servers

\* Between calls, a restart would read back what RAM holds, but for the blobs
\* whose last write flash refused.
FlashFollows ==
    call = Idle =>
        \A b \in {"identity", "psk", "records", "last"} \ behind : flash[b] = ram[b]

\* A record add_record() said was stored is in flash from then on, through
\* refusals and power loss at any point of later calls, until it is replaced,
\* evicted or removed, or the board makes itself new keys.
PairedIsKept == \A p \in paired : p \in Range(flash.records)

\* A server taken out with nothing refused leaves no record, no name and no
\* last-playback server in flash, whatever happens later, until it pairs or
\* plays again.
RemovedIsGone ==
    \A s \in removed :
        ~Has(flash.records, s) /\ s \notin flash.names /\ flash.last # s
=============================================================================
