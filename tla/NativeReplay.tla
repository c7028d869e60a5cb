---------------------------- MODULE NativeReplay ----------------------------
(***************************************************************************)
(* The bounded replay memory of keyed native writes (apply_patch and       *)
(* apply_changes with an idempotency_key). A slot is a caller, a tool and  *)
(* a key; it is reserved under the lock, the write runs without it, and    *)
(* the outcome is recorded under it again. The memory is lost with the     *)
(* process. Whether an uncertain write changed files is not known.         *)
(***************************************************************************)
EXTENDS Naturals, Sequences, SequencesExt

CONSTANTS
    NativeCallers,   \* calls that may be in progress at once
    Slots,           \* digests of scope, tool and key
    Works,           \* fingerprints of the arguments without the key
    ReplayCapacity,  \* CAPACITY, 64 in the code
    MaxWrites        \* bound on the writes of a behaviour

ASSUME ReplaySizes == {ReplayCapacity, MaxWrites} \subseteq Nat \ {0}

VARIABLES
    entries,      \* the slots remembered, least recently used first
    writer,       \* the calls in progress
    applied,      \* the works applied, or perhaps applied, under a slot
    displaced     \* how often a completed slot made room for another

replayVars == <<entries, writer, applied, displaced>>

NotWriting == [pc |-> "free", slot |-> "none", work |-> "none", result |-> "none"]

ReplayInit ==
    /\ entries = <<>>
    /\ writer = [c \in NativeCallers |-> NotWriting]
    /\ applied = [s \in Slots |-> <<>>]
    /\ displaced = [s \in Slots |-> 0]

-----------------------------------------------------------------------------
EntriesOf(s) == {i \in DOMAIN entries : entries[i].slot = s}
Reserved(s) == EntriesOf(s) # {}
LeastRecent(I) == CHOOSE i \in I : \A j \in I : i <= j
PlaceOf(s) == LeastRecent(EntriesOf(s))
EntryOf(s) == entries[PlaceOf(s)]
KeyedWrites == FoldFunction(LAMBDA w, n : Len(w) + n, 0, applied)

(* The memory answers for a slot it holds: other work, still in progress   *)
(* and uncertain are conflicts that change nothing; a recorded result is   *)
(* returned, and its entry is the youngest again.                          *)
Remembered(c, s, w) ==
    /\ writer[c].pc = "free" /\ Reserved(s)
    /\ entries' = IF EntryOf(s).work = w /\ EntryOf(s).outcome = "complete"
                  THEN Append(RemoveAt(entries, PlaceOf(s)), EntryOf(s)) ELSE entries
    /\ UNCHANGED <<writer, applied, displaced>>

EvictableAny == DOMAIN entries

(* Only a completed entry makes room, the least recently used first.       *)
Evictable == {i \in DOMAIN entries : entries[i].outcome = "complete"}

(* A slot not held is reserved; a dry run is not.                          *)
ReserveSlot(c, s, w) ==
    /\ writer[c].pc = "free" /\ ~Reserved(s) /\ KeyedWrites < MaxWrites
    /\ LET fresh == [slot |-> s, work |-> w, outcome |-> "pending"]
       IN \/ /\ Len(entries) < ReplayCapacity
             /\ entries' = Append(entries, fresh)
             /\ UNCHANGED displaced
          \/ /\ Len(entries) >= ReplayCapacity /\ Evictable # {}
             /\ entries' = Append(RemoveAt(entries, LeastRecent(Evictable)), fresh)
             /\ displaced' = [displaced EXCEPT ![entries[LeastRecent(Evictable)].slot] = @ + 1]
    /\ writer' = [writer EXCEPT ![c] = [pc |-> "writing", slot |-> s, work |-> w, result |-> "none"]]
    /\ UNCHANGED applied

(* No room among active and unresolved writes, or a dry run: nothing kept. *)
NotReserved(c, s) ==
    /\ writer[c].pc = "free" /\ ~Reserved(s)
    /\ UNCHANGED replayVars

(* What the memory makes of an operation's result: an answer too large to  *)
(* keep or not ok, and a Runtime or Internal error, are uncertain; any     *)
(* other error says that nothing was written and frees the slot.           *)
OutcomeOf(result) ==
    CASE result = "applied" -> "complete"
      [] result \in {"unkept", "runtime_error"} -> "unknown"
      [] result = "refused" -> "forget"

(* The operation, without the lock.                                        *)
WriteFiles(c, result) ==
    /\ writer[c].pc = "writing"
    /\ writer' = [writer EXCEPT ![c].pc = "record", ![c].result = result]
    /\ applied' = IF result = "refused" THEN applied
                  ELSE [applied EXCEPT ![writer[c].slot] = Append(@, writer[c].work)]
    /\ UNCHANGED <<entries, displaced>>

RecordOutcome(c) ==
    /\ writer[c].pc = "record"
    /\ LET s == writer[c].slot
           o == OutcomeOf(writer[c].result)
       IN entries' = IF ~Reserved(s) THEN entries
                     ELSE IF o = "forget" THEN RemoveAt(entries, PlaceOf(s))
                     ELSE [entries EXCEPT ![PlaceOf(s)].outcome = o]
    /\ writer' = [writer EXCEPT ![c] = NotWriting]
    /\ UNCHANGED <<applied, displaced>>

ReplayNext ==
    \E c \in NativeCallers :
        \/ \E s \in Slots :
            \/ \E w \in Works : Remembered(c, s, w) \/ ReserveSlot(c, s, w)
            \/ NotReserved(c, s)
        \/ \E result \in {"applied", "unkept", "runtime_error", "refused"} : WriteFiles(c, result)
        \/ RecordOutcome(c)

ReplaySpec == ReplayInit /\ [][ReplayNext]_replayVars

-----------------------------------------------------------------------------
(* Under one key files are written once, unless the completed entry was    *)
(* pushed out by younger writes since: no repetition, change of arguments, *)
(* race or error writes again what is, or may be, there already.           *)
WrittenOncePerKey == \A s \in Slots : Len(applied[s]) <= 1 + displaced[s]

(* A write that is in progress or whose effect is uncertain keeps its slot *)
(* whatever the memory has to hold; the slot names the work that was done. *)
UncertainKeepsSlot ==
    /\ \A c \in NativeCallers : writer[c].pc # "free" => Reserved(writer[c].slot)
    /\ \A s \in Slots :
        /\ Len(applied[s]) > displaced[s] => Reserved(s) /\ EntryOf(s).work = Last(applied[s])
        /\ \A i, j \in EntriesOf(s) : i = j
    /\ Len(entries) <= ReplayCapacity

(* A keyed write happens once, and the memory of it is not given up while  *)
(* that is in doubt (NativeReplay::reserve, complete).                     *)
WritesRemembered ==
    /\ WrittenOncePerKey
    /\ UncertainKeepsSlot
=============================================================================
