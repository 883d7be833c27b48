------------------------------ MODULE ApiKeys ------------------------------
(***************************************************************************)
(* The API keys of daemons and users (shared/api_key_common.rs, the two    *)
(* key services and their handlers, AuthenticatedEntity::extract_auth).    *)
(*                                                                         *)
(* A request that brings a key reads the key's row, and a task it spawns   *)
(* writes the whole row back some time later, with the time of its use, or *)
(* disabled when the key has expired.  Owners of keys replace, change and  *)
(* delete rows in the meantime.                                            *)
(*                                                                         *)
(* A hash is a number, new for every key that is generated.  Left out: the *)
(* permissions and networks of a key, its name and tags, and the plans     *)
(* without API access, on which a user's key is not used.                  *)
(***************************************************************************)
EXTENDS Naturals, FiniteSets

CONSTANTS
    Keys,        \* the rows' ids
    MaxHashes,   \* bound: keys generated
    MaxUses,     \* bound: requests that bring a key
    MaxRequests, \* bound: requests about a key
    NoKey

ASSUME KeysAssumption == {MaxHashes, MaxUses, MaxRequests} \subseteq Nat

VARIABLES
    key,       \* [Keys -> row or NoKey]
    gone,      \* ids of deleted rows
    late,      \* has the time come at which keys with a time limit expire?
    spawned,   \* the rows that tasks are going to write
    handler,   \* the request about a key
    hashes, uses, requests,
    issued,    \* history: [Keys -> what its owner was told last]
    stale      \* history: has a row been written that was read before another write?

keyVars == <<key, gone, late, spawned, handler, hashes, uses, requests, issued, stale>>

NoHandler == [at |-> "none"]
KeyRow == [hash : 1..MaxHashes, enabled : BOOLEAN, limited : BOOLEAN, used : 0..MaxUses]

\* Mutant: a key with a time limit counts as expired.
IsExpiredEarly(r) == r.limited

\* check_key_validity
IsExpired(r) == r.limited /\ late
IsValid(r) == r.enabled /\ ~IsExpired(r)

KeysInit ==
    /\ key = [k \in Keys |-> NoKey] /\ gone = {} /\ late = FALSE
    /\ spawned = {} /\ handler = NoHandler
    /\ hashes = 0 /\ uses = 0 /\ requests = 0
    /\ issued = [k \in Keys |-> NoKey] /\ stale = FALSE

----------------------------------------------------------------------------
(* extract_auth *)

\* The row of the key, if there is one; what is spawned is the row as it was read.
UseKey(h, k) ==
    /\ uses < MaxUses /\ uses' = uses + 1
    /\ key[k] # NoKey /\ key[k].hash = h
    /\ LET r == key[k]
           after == CASE IsExpired(r) -> {[r EXCEPT !.enabled = FALSE]}
                      [] IsValid(r)   -> {[r EXCEPT !.used = uses + 1]}
                      [] OTHER        -> {}
       IN  spawned' = spawned \cup {[id |-> k, base |-> r, row |-> s] : s \in after}
    /\ UNCHANGED <<key, gone, late, handler, hashes, requests, issued, stale>>

\* Mutant: a row that is gone is inserted.
StoresAlways(k, base, row) ==
    /\ key' = [key EXCEPT ![k] = row]
    /\ stale' = (stale \/ (key[k] # NoKey /\ [key[k] EXCEPT !.used = base.used] # base))

\* CrudService::update looks the row up, and the UPDATE changes no row that is gone.
Stores(k, base, row) ==
    /\ key' = IF key[k] = NoKey THEN key ELSE [key EXCEPT ![k] = row]
    /\ stale' = (stale \/ (key[k] # NoKey /\ [key[k] EXCEPT !.used = base.used] # base))

WriteBack(s) ==
    /\ s \in spawned
    /\ spawned' = spawned \ {s}
    /\ Stores(s.id, s.base, s.row)
    /\ UNCHANGED <<gone, late, handler, hashes, uses, requests, issued>>

----------------------------------------------------------------------------
(* The handlers *)

Requests == handler = NoHandler /\ requests < MaxRequests /\ requests' = requests + 1

\* A key is generated for the request's settings; the request's own key is not looked at.
NewKey(enabled, limited) == [hash |-> hashes + 1, enabled |-> enabled, limited |-> limited, used |-> 0]

CreateKey(k, enabled, limited) ==
    /\ Requests
    /\ key[k] = NoKey /\ k \notin gone /\ hashes < MaxHashes
    /\ hashes' = hashes + 1
    /\ key' = [key EXCEPT ![k] = NewKey(enabled, limited)]
    /\ issued' = [issued EXCEPT ![k] = NewKey(enabled, limited)]
    /\ UNCHANGED <<gone, late, spawned, handler, uses, stale>>

\* rotate_key, update_daemon_api_key and update_user_api_key read the row ...
RotateReads(k) ==
    /\ Requests /\ key[k] # NoKey /\ hashes < MaxHashes
    /\ hashes' = hashes + 1
    /\ handler' = [at |-> "write", id |-> k, base |-> key[k], row |-> [key[k] EXCEPT !.hash = hashes + 1]]
    /\ UNCHANGED <<key, gone, late, spawned, uses, issued, stale>>

\* Mutant: the key comes from the request, which has none.
PreservedWithoutKey(existing, enabled, limited) ==
    [hash |-> 0, enabled |-> enabled, limited |-> limited, used |-> existing.used]

\* preserve_immutable_fields: the hash and the use are the row's, the rest the request's.
Preserved(existing, enabled, limited) == [existing EXCEPT !.enabled = enabled, !.limited = limited]

UpdateReads(k, enabled, limited) ==
    /\ Requests /\ key[k] # NoKey
    /\ handler' = [at |-> "write", id |-> k, base |-> key[k], row |-> Preserved(key[k], enabled, limited)]
    /\ UNCHANGED <<key, gone, late, spawned, hashes, uses, issued, stale>>

\* ... and write it.  A row that is gone is an error.
RequestWrites ==
    LET k == handler.id
    IN  /\ handler.at = "write"
        /\ handler' = NoHandler
        /\ Stores(k, handler.base, handler.row)
        /\ issued' = IF key[k] = NoKey THEN issued ELSE [issued EXCEPT ![k] = handler.row]
        /\ UNCHANGED <<gone, late, spawned, hashes, uses, requests>>

DeleteKey(k) ==
    /\ Requests /\ key[k] # NoKey
    /\ key' = [key EXCEPT ![k] = NoKey] /\ gone' = gone \cup {k}
    /\ UNCHANGED <<late, spawned, handler, hashes, uses, issued, stale>>

KeysExpire ==
    /\ ~late /\ late' = TRUE
    /\ UNCHANGED <<key, gone, spawned, handler, hashes, uses, requests, issued, stale>>

KeysRestart ==
    /\ spawned # {} \/ handler # NoHandler
    /\ spawned' = {} /\ handler' = NoHandler
    /\ UNCHANGED <<key, gone, late, hashes, uses, requests, issued, stale>>

KeysNext ==
    \/ \E k \in Keys :
         \/ \E h \in 1..hashes : UseKey(h, k)
         \/ \E enabled, limited \in BOOLEAN : CreateKey(k, enabled, limited) \/ UpdateReads(k, enabled, limited)
         \/ RotateReads(k) \/ DeleteKey(k)
    \/ \E s \in spawned : WriteBack(s)
    \/ RequestWrites \/ KeysExpire \/ KeysRestart

KeysSpec == KeysInit /\ [][KeysNext]_keyVars

----------------------------------------------------------------------------
\* The types of the rows, of the tasks and of the request.
KeysTypeOK ==
    /\ key \in [Keys -> KeyRow \cup {NoKey}] /\ issued \in [Keys -> KeyRow \cup {NoKey}]
    /\ gone \subseteq Keys /\ late \in BOOLEAN /\ stale \in BOOLEAN
    /\ spawned \subseteq [id : Keys, base : KeyRow, row : KeyRow]
    /\ handler \in [at : {"write"}, id : Keys, base : KeyRow, row : KeyRow] \cup {NoHandler}
    /\ hashes \in 0..MaxHashes /\ uses \in 0..MaxUses /\ requests \in 0..MaxRequests

\* A deleted key does not come back: neither with the tasks that were spawned before nor
\* with a request that had read it.
DeletedKeysStayDeleted == \A k \in gone : key[k] = NoKey

\* A key is as its owner was told last, but for the disabling of an expired one: the
\* replaced value does not work any more ("Generating a new key will invalidate your old
\* key"), the new one does, and a disabled key stays disabled.  A task or a request that
\* writes what it read before another write is the one way to undo it.
KeysAreAsIssued ==
    ~stale => \A k \in Keys : key[k] # NoKey =>
        /\ key[k].hash = issued[k].hash /\ key[k].limited = issued[k].limited
        /\ key[k].enabled = issued[k].enabled \/ (late /\ ~key[k].enabled)
=============================================================================
