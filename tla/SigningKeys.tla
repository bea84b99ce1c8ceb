---------------------------- MODULE SigningKeys ----------------------------
(***************************************************************************)
(* The keys a repository signs its commits with: signing.py, the keygen    *)
(* and keys commands of cmd_registry.py, and the signing of a commit in    *)
(* core.py. A key is written, and a rotation moves it, in several steps;   *)
(* the process may be killed between any two. Commands run one at a time.  *)
(*                                                                         *)
(* A key stands for its pair: signing.pem and signing.pub of a directory   *)
(* hold a key, are Empty (opened, not yet written) or are absent. The      *)
(* fingerprint of a key is the key itself.                                 *)
(***************************************************************************)
EXTENDS Integers

CONSTANTS SigningKey, Absent, Empty, Unknown,
          MaxKills              \* bound: how often a command is killed

ASSUME KeysAssumption ==
    /\ {Absent, Empty, Unknown} \intersect SigningKey = {} /\ Absent # Empty
    /\ MaxKills \in Nat

Slot == SigningKey \union {Unknown}     \* the directories under archive/

VARIABLES pem, pub,     \* .av/keys/signing.pem and signing.pub
          filed,        \* the [pem, pub] of a slot
          keyStep,      \* what the running command does next, or "none"
          slot,         \* where a running rotation archives to
          fresh,        \* the key that is being written
          minted,       \* history: keys whose private half was written
          whole,        \* history: keys written by a generation that ended
          signers,      \* history: the keys that signed a commit
          kills

keyVars == <<pem, pub, filed, keyStep, slot, fresh, minted, whole, signers, kills>>

KeysInit ==
    /\ pem = Absent /\ pub = Absent
    /\ filed = [s \in Slot |-> [pem |-> Absent, pub |-> Absent]]
    /\ keyStep = "none" /\ slot = Unknown /\ fresh = Absent
    /\ minted = {} /\ whole = {} /\ signers = {} /\ kills = 0

-----------------------------------------------------------------------------
(* generate_keypair: refused while either file is there; the private half is *)
(* opened, truncated and written, then the public one.                       *)
(* Mutant: only the private half is looked for. *)
VacantByPem == pem = Absent

Vacant == pem = Absent /\ pub = Absent

BeginGenerate(k) ==
    /\ k \notin minted /\ Vacant
    /\ pem' = Empty /\ fresh' = k /\ keyStep' = "write pem"

Keygen(k) ==
    /\ keyStep = "none"
    /\ BeginGenerate(k)
    /\ UNCHANGED <<pub, filed, slot, minted, whole, signers, kills>>

WritePem ==
    /\ keyStep = "write pem"
    /\ pem' = fresh /\ minted' = minted \union {fresh} /\ keyStep' = "open pub"
    /\ UNCHANGED <<pub, filed, slot, fresh, whole, signers, kills>>

OpenPub ==
    /\ keyStep = "open pub"
    /\ pub' = Empty /\ keyStep' = "write pub"
    /\ UNCHANGED <<pem, filed, slot, fresh, minted, whole, signers, kills>>

WritePub ==
    /\ keyStep = "write pub"
    /\ pub' = fresh /\ whole' = whole \union {fresh} /\ keyStep' = "none"
    /\ UNCHANGED <<pem, filed, slot, fresh, minted, signers, kills>>

-----------------------------------------------------------------------------
(* rotate_keypair: the slot is named after the public key; a public half     *)
(* that is missing or empty gives Unknown. A move replaces what is there.    *)
SlotFor(public) == IF public \in SigningKey THEN public ELSE Unknown
Filing(s, private, public) == [filed EXCEPT ![s] = [pem |-> private, pub |-> public]]

Rotate ==
    /\ keyStep = "none" /\ pem # Absent
    /\ slot' = SlotFor(pub)
    /\ filed' = Filing(SlotFor(pub), pem, filed[SlotFor(pub)].pub)
    /\ pem' = Absent /\ keyStep' = "move pub"
    /\ UNCHANGED <<pub, fresh, minted, whole, signers, kills>>

MovePub ==
    /\ keyStep = "move pub"
    /\ filed' = IF pub # Absent THEN Filing(slot, filed[slot].pem, pub) ELSE filed
    /\ pub' = Absent /\ keyStep' = "generate"
    /\ UNCHANGED <<pem, slot, fresh, minted, whole, signers, kills>>

GenerateNext(k) ==
    /\ keyStep = "generate"
    /\ BeginGenerate(k)
    /\ UNCHANGED <<pub, filed, slot, minted, whole, signers, kills>>

-----------------------------------------------------------------------------
(* sign_payload: a commit is signed with the private half that is there; one *)
(* that cannot be read leaves the commit unsigned.                           *)
SignCommit ==
    /\ keyStep = "none" /\ pem \in SigningKey
    /\ signers' = signers \union {pem}
    /\ UNCHANGED <<pem, pub, filed, keyStep, slot, fresh, minted, whole, kills>>

(* A killed rotation may leave a public half alone, which keygen refuses to  *)
(* overwrite; the user deletes it, as its message says.                      *)
DeleteLeftover ==
    /\ keyStep = "none" /\ pem = Absent /\ pub # Absent
    /\ pub' = Absent
    /\ UNCHANGED <<pem, filed, keyStep, slot, fresh, minted, whole, signers, kills>>

Kill ==
    /\ keyStep # "none" /\ kills < MaxKills
    /\ keyStep' = "none" /\ kills' = kills + 1
    /\ UNCHANGED <<pem, pub, filed, slot, fresh, minted, whole, signers>>

KeysNext ==
    \/ \E k \in SigningKey : Keygen(k) \/ GenerateNext(k)
    \/ WritePem \/ OpenPub \/ WritePub
    \/ Rotate \/ MovePub
    \/ SignCommit \/ DeleteLeftover \/ Kill

KeysSpec == KeysInit /\ [][KeysNext]_keyVars

-----------------------------------------------------------------------------
KeysTypeOK ==
    /\ pem \in SigningKey \union {Absent, Empty} /\ pub \in SigningKey \union {Absent, Empty}
    /\ filed \in [Slot -> [pem : SigningKey \union {Absent, Empty},
                             pub : SigningKey \union {Absent, Empty}]]
    /\ keyStep \in {"none", "write pem", "open pub", "write pub", "move pub", "generate"}
    /\ slot \in Slot /\ fresh \in SigningKey \union {Absent}
    /\ minted \subseteq SigningKey /\ whole \subseteq minted /\ signers \subseteq minted
    /\ kills \in 0..MaxKills

Held(k) == pem = k \/ \E s \in Slot : filed[s].pem = k

FinishedKeysHeld == \A k \in whole : Held(k)
WrittenKeysHeld == kills <= 1 => \A k \in minted \union signers : Held(k)
HalvesMatch == pem \in SigningKey /\ pub \in SigningKey => pem = pub
FiledByFingerprint ==
    \A k \in SigningKey : filed[k].pem \in {k, Absent} /\ filed[k].pub \in {k, Absent}
PairsTogether ==
    kills = 0 /\ keyStep = "none" =>
        \A k \in whole : (pem = k /\ pub = k) \/ filed[k] = [pem |-> k, pub |-> k]

(***************************************************************************)
(* A key whose generation ended is held for ever, in use or archived,      *)
(* whatever kills generations and rotations; and so is every key that was  *)
(* written, and may have signed commits, while one command at most was     *)
(* killed. Two halves side by side are of one key, and an archived half    *)
(* lies under the fingerprint of its own key; with nothing killed, every   *)
(* archived key has both halves there.                                     *)
(***************************************************************************)
KeysKept == FinishedKeysHeld /\ WrittenKeysHeld /\ HalvesMatch /\ FiledByFingerprint /\ PairsTogether
=============================================================================
