------------------------------ MODULE TrustStore ------------------------------
(***************************************************************************)
(* TrustStore (security/trust_store.py): the trusted key of each node, in  *)
(* two dictionaries, one of key objects and one of raw bytes, with no      *)
(* lock.  A dictionary access is atomic in CPython; a call that writes     *)
(* makes two of them, and another thread may run in between.               *)
(***************************************************************************)
CONSTANTS
    Thread,     \* the threads that call the store
    Node,       \* node identifiers
    Key,        \* Ed25519 public keys
    NoKey,      \* the result of get() for a node with no entry
    NoCall      \* stands for "the thread is not in a call"

ASSUME TrustAssumption == NoKey \notin Key

Writes == {"load", "remove"}

\* load_key and load_key_bytes, with a key that parses or not; remove_key;
\* is_trusted and get_public_key_bytes, which read the bytes; get_public_key and
\* list_trusted_nodes, which read the objects.
Call ==
    [op : {"load"}, node : Node, key : Key]
        \cup [op : {"remove", "load_malformed", "is_trusted", "get_public_key"},
              node : Node, key : {NoKey}]

ASSUME NoCallAssumption == NoCall \notin Call

VARIABLES
    objects,    \* _trusted_keys
    bytes,      \* _key_bytes_map
    call,       \* call[t]: the call thread t is in
    pc,         \* where it is: the first or the second access, or about to return
    trusts,     \* trusts[t]: what the last is_trusted of t found
    holds,      \* holds[t]: what the last get_public_key of t returned
    overlap     \* history: the latest write to n began during another one

vars == <<objects, bytes, call, pc, trusts, holds, overlap>>

TypeOK ==
    /\ objects \in [Node -> Key \cup {NoKey}]
    /\ bytes \in [Node -> Key \cup {NoKey}]
    /\ call \in [Thread -> Call \cup {NoCall}]
    /\ pc \in [Thread -> {"idle", "first", "second", "done"}]
    /\ trusts \in [Thread -> Key \cup {NoKey}]
    /\ holds \in [Thread -> Key \cup {NoKey}]
    /\ overlap \in [Node -> BOOLEAN]
    /\ \A t \in Thread : /\ pc[t] = "idle" <=> call[t] = NoCall
                         /\ pc[t] = "second" => call[t].op \in Writes

\* __init__
Init ==
    /\ objects = [n \in Node |-> NoKey]
    /\ bytes = [n \in Node |-> NoKey]
    /\ call = [t \in Thread |-> NoCall]
    /\ pc = [t \in Thread |-> "idle"]
    /\ trusts = [t \in Thread |-> NoKey]
    /\ holds = [t \in Thread |-> NoKey]
    /\ overlap = [n \in Node |-> FALSE]

-----------------------------------------------------------------------------
Writing(t, n) == call[t] # NoCall /\ call[t].op \in Writes /\ call[t].node = n

Start(t, c) ==
    /\ pc[t] = "idle"
    /\ call' = [call EXCEPT ![t] = c]
    /\ pc' = [pc EXCEPT ![t] = "first"]
    /\ overlap' = IF c.op \in Writes
                  THEN [overlap EXCEPT ![c.node] = \E u \in Thread : Writing(u, c.node)]
                  ELSE overlap
    /\ UNCHANGED <<objects, bytes, trusts, holds>>

At(t, label, ops) == pc[t] = label /\ call[t].op \in ops
Goto(t, label)    == pc' = [pc EXCEPT ![t] = label]

\* Mutant: the second dictionary is forgotten.
StoreObjectOnly(t) ==
    /\ At(t, "first", Writes)
    /\ objects' = [objects EXCEPT ![call[t].node] = call[t].key]
    /\ Goto(t, "done")
    /\ UNCHANGED <<bytes, call, trusts, holds, overlap>>

\* The first access of load_key, load_key_bytes or remove_key, ...
StoreObject(t) ==
    /\ At(t, "first", Writes)
    /\ objects' = [objects EXCEPT ![call[t].node] = call[t].key]
    /\ Goto(t, "second")
    /\ UNCHANGED <<bytes, call, trusts, holds, overlap>>

\* Mutant: the object is stored once more.
StoreBytesAndObject(t) ==
    /\ At(t, "second", Writes)
    /\ bytes' = [bytes EXCEPT ![call[t].node] = call[t].key]
    /\ objects' = [objects EXCEPT ![call[t].node] = call[t].key]
    /\ Goto(t, "done")
    /\ UNCHANGED <<call, trusts, holds, overlap>>

\* ... and the second.
StoreBytes(t) ==
    /\ At(t, "second", Writes)
    /\ bytes' = [bytes EXCEPT ![call[t].node] = call[t].key]
    /\ Goto(t, "done")
    /\ UNCHANGED <<objects, call, trusts, holds, overlap>>

\* Mutant: a key that does not parse is noticed after the first access.
RejectLoadLate(t) ==
    /\ At(t, "first", {"load_malformed"})
    /\ objects' = [objects EXCEPT ![call[t].node] = NoKey]
    /\ Goto(t, "second")
    /\ UNCHANGED <<bytes, call, trusts, holds, overlap>>

\* A key that does not parse raises before anything is stored.
RejectLoad(t) ==
    /\ At(t, "first", {"load_malformed"})
    /\ Goto(t, "done")
    /\ UNCHANGED <<objects, bytes, call, trusts, holds, overlap>>

\* Mutant: the key is taken from the objects.
ReadBytesOfObject(t) ==
    /\ At(t, "first", {"is_trusted"})
    /\ trusts' = [trusts EXCEPT ![t] = objects[call[t].node]]
    /\ Goto(t, "done")
    /\ UNCHANGED <<objects, bytes, call, holds, overlap>>

\* The answer is a comparison with the bytes found here.
ReadBytes(t) ==
    /\ At(t, "first", {"is_trusted"})
    /\ trusts' = [trusts EXCEPT ![t] = bytes[call[t].node]]
    /\ Goto(t, "done")
    /\ UNCHANGED <<objects, bytes, call, holds, overlap>>

ReadObject(t) ==
    /\ At(t, "first", {"get_public_key"})
    /\ holds' = [holds EXCEPT ![t] = objects[call[t].node]]
    /\ Goto(t, "done")
    /\ UNCHANGED <<objects, bytes, call, trusts, overlap>>

Finish(t) ==
    /\ pc[t] = "done"
    /\ call' = [call EXCEPT ![t] = NoCall]
    /\ Goto(t, "idle")
    /\ UNCHANGED <<objects, bytes, trusts, holds, overlap>>

Step(t) ==
    \/ StoreObject(t) \/ StoreBytes(t) \/ RejectLoad(t)
    \/ ReadBytes(t) \/ ReadObject(t) \/ Finish(t)

Next == \E t \in Thread : Step(t) \/ \E c \in Call : Start(t, c)

Spec == Init /\ [][Next]_vars
-----------------------------------------------------------------------------
\* The store as callers of is_trusted and get_public_key_bytes see it, ...
Bytes == INSTANCE AtomicTrust
    WITH keys <- bytes, effected <- {t \in Thread : pc[t] = "done"}, result <- trusts,
         WriteOps <- Writes, ReadOps <- {"is_trusted"}

\* ... and as callers of get_public_key and list_trusted_nodes see it.
Objects == INSTANCE AtomicTrust
    WITH keys <- objects, effected <- {t \in Thread : pc[t] \in {"second", "done"}},
         result <- holds, WriteOps <- Writes, ReadOps <- {"get_public_key"}

\* Trust decisions are atomic with no lock: every load, removal and is_trusted takes
\* effect on the bytes at one instant between its start and its return.
TrustIsAtomic == Bytes!AtomicSpec

\* So is the key object a caller is given, on its own.
ObjectsAreAtomic == Objects!AtomicSpec

\* The two dictionaries differ only while a write has an access to make or after
\* writes that overlapped; a write that meets no other one repairs them.
AgreeUnlessOverlap ==
    \A n \in Node :
        objects[n] # bytes[n] =>
            \/ overlap[n]
            \/ \E t \in Thread : Writing(t, n) /\ pc[t] # "done"

\* trust_store.py:36 "Provides thread-safe operations": when no thread is in a call,
\* list_trusted_nodes and get_public_key say the same as is_trusted.
MapsAgreeAtRest == (\A t \in Thread : pc[t] = "idle") => objects = bytes
=============================================================================
