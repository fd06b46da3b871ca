----------------------------- MODULE AtomicTrust -----------------------------
(***************************************************************************)
(* A map of trusted keys shared by threads, as its callers imagine it:     *)
(* every call takes effect at one instant between its start and its        *)
(* return, and its result is what the map says at that instant.            *)
(***************************************************************************)
CONSTANTS
    Thread,
    Node,
    Key,
    NoKey,      \* stands for "no key"
    Call,       \* the calls: records with the fields op, node and key
    NoCall,     \* stands for "the thread is not in a call"
    WriteOps,   \* the operations that set the key of their node to their key
    ReadOps     \* the operations that return the key of their node

VARIABLES
    keys,       \* keys[n]: the trusted key of node n
    call,       \* call[t]: the call thread t is in
    effected,   \* the threads whose call has taken effect
    result      \* result[t]: what the last read of t returned

atomicVars == <<keys, call, effected, result>>

AtomicInit ==
    /\ keys = [n \in Node |-> NoKey]
    /\ call = [t \in Thread |-> NoCall]
    /\ effected = {}
    /\ result = [t \in Thread |-> NoKey]

Invoke(t, c) ==
    /\ call[t] = NoCall
    /\ call' = [call EXCEPT ![t] = c]
    /\ UNCHANGED <<keys, effected, result>>

Effect(t) ==
    /\ call[t] # NoCall /\ t \notin effected
    /\ effected' = effected \cup {t}
    /\ \/ /\ call[t].op \in WriteOps
          /\ keys' = [keys EXCEPT ![call[t].node] = call[t].key]
          /\ UNCHANGED result
       \/ /\ call[t].op \in ReadOps
          /\ result' = [result EXCEPT ![t] = keys[call[t].node]]
          /\ UNCHANGED keys
       \/ /\ call[t].op \notin WriteOps \cup ReadOps
          /\ UNCHANGED <<keys, result>>
    /\ UNCHANGED call

Return(t) ==
    /\ t \in effected
    /\ call' = [call EXCEPT ![t] = NoCall]
    /\ effected' = effected \ {t}
    /\ UNCHANGED <<keys, result>>

AtomicNext ==
    \E t \in Thread : \/ \E c \in Call : Invoke(t, c)
                      \/ Effect(t)
                      \/ Return(t)

AtomicSpec == AtomicInit /\ [][AtomicNext]_atomicVars
=============================================================================
