----------------------------- MODULE ContactCache -----------------------------
(***************************************************************************)
(* The contact list of one community in the SDK client: the relay owns it, *)
(* the client keeps the last answer in memory and in a file.  Sends,       *)
(* presence checks and API calls fetch the list concurrently, and each     *)
(* answer replaces the whole cache, in the order the answers arrive.       *)
(***************************************************************************)
EXTENDS Naturals, FiniteSets

CONSTANTS Contacts, Fetches

VARIABLES
    relaySet,   \* contacts as the relay has them
    cache,      \* the cache in memory
    disk,       \* the cache file; "corrupt" when it cannot be read
    running,    \* the client is started
    fetch,      \* a getContacts call: "idle", "asked", or its answer
    removing,   \* contacts whose removal the relay has answered to nobody yet
    removed,    \* contacts this client removed and that were not added again
    overlapped  \* contacts some answer still in flight named at their removal

contactVars == <<relaySet, cache, disk, running, fetch, removing, removed, overlapped>>

Idle  == [state |-> "idle",  list |-> {}]
Asked == [state |-> "asked", list |-> {}]

ContactInit ==
    /\ relaySet \in SUBSET Contacts
    /\ cache = {} /\ disk = [readable |-> FALSE, list |-> {}] /\ running = FALSE
    /\ fetch = [f \in Fetches |-> Idle]
    /\ removing = {} /\ removed = {} /\ overlapped = {}

Saved(list) == [readable |-> TRUE, list |-> list]

(* updateContactsCache: replaces the cache and writes the file. *)
UpdateContactsCache(list) ==
    /\ cache' = list
    /\ disk' = Saved(list)

(* start: a readable cache file is used as it is, otherwise the relay is   *)
(* asked (and an unreachable relay leaves the cache empty).                *)
StartClient ==
    /\ ~running
    /\ running' = TRUE
    /\ \/ disk.readable /\ cache' = disk.list /\ UNCHANGED disk
       \/ ~disk.readable /\ UpdateContactsCache(relaySet)
       \/ ~disk.readable /\ cache' = {} /\ UNCHANGED disk
    /\ UNCHANGED <<relaySet, fetch, removing, removed, overlapped>>

(* stop writes the file again; a crash in the middle of a write leaves one *)
(* loadCache cannot parse.                                                 *)
StopClient ==
    /\ running
    /\ running' = FALSE
    /\ fetch' = [f \in Fetches |-> Idle]
    /\ removing' = {}
    /\ \/ disk' = Saved(cache)
       \/ disk' = [readable |-> FALSE, list |-> {}]
    /\ UNCHANGED <<relaySet, cache, removed, overlapped>>

(* getContacts, checkPresence, send to an unknown name, sendToGroup. *)
FetchStarts(f) ==
    /\ running /\ fetch[f] = Idle
    /\ fetch' = [fetch EXCEPT ![f] = Asked]
    /\ UNCHANGED <<relaySet, cache, disk, running, removing, removed, overlapped>>

RelayAnswers(f) ==
    /\ fetch[f] = Asked
    /\ fetch' = [fetch EXCEPT ![f] = [state |-> "answered", list |-> relaySet]]
    /\ UNCHANGED <<relaySet, cache, disk, running, removing, removed, overlapped>>

FetchReturns(f) ==
    /\ fetch[f].state = "answered"
    /\ UpdateContactsCache(fetch[f].list)
    /\ fetch' = [fetch EXCEPT ![f] = Idle]
    /\ UNCHANGED <<relaySet, running, removing, removed, overlapped>>

(* The relay cannot be reached: the cache is kept and used. *)
FetchFails(f) ==
    /\ fetch[f] # Idle
    /\ fetch' = [fetch EXCEPT ![f] = Idle]
    /\ UNCHANGED <<relaySet, cache, disk, running, removing, removed, overlapped>>

(* requestContact/acceptContact, by either side; acceptContact then        *)
(* fetches the list.                                                       *)
ContactAdded(c) ==
    /\ c \notin relaySet
    /\ relaySet' = relaySet \cup {c}
    /\ removed' = removed \ {c}
    /\ overlapped' = overlapped \ {c}
    /\ removing' = removing \ {c}
    /\ UNCHANGED <<cache, disk, running, fetch>>

(* removeContact: the relay call. *)
RemoveContact(c) ==
    /\ running /\ c \in relaySet /\ c \notin removing
    /\ relaySet' = relaySet \ {c}
    /\ removing' = removing \cup {c}
    /\ UNCHANGED <<cache, disk, running, fetch, removed, overlapped>>

\* Mutant: the file keeps the contact.
DropFromMemoryOnly(c) == cache' = cache \ {c} /\ UNCHANGED disk

(* removeContact after the await: the contact leaves the cache and, when   *)
(* it was there, the file.                                                 *)
DropFromCache(c) ==
    /\ cache' = cache \ {c}
    /\ disk' = IF c \in cache THEN Saved(cache') ELSE disk

RemoveReturns(c) ==
    /\ c \in removing
    /\ removing' = removing \ {c}
    /\ DropFromCache(c)
    /\ removed' = removed \cup {c}
    /\ overlapped' = IF \E f \in Fetches : c \in fetch[f].list
                     THEN overlapped \cup {c} ELSE overlapped
    /\ UNCHANGED <<relaySet, running, fetch>>

ContactNext ==
    \/ StartClient \/ StopClient
    \/ \E f \in Fetches : FetchStarts(f) \/ RelayAnswers(f) \/ FetchReturns(f) \/ FetchFails(f)
    \/ \E c \in Contacts : ContactAdded(c) \/ RemoveContact(c) \/ RemoveReturns(c)

-----------------------------------------------------------------------------
(* The types of the state; the only type invariant of this module. *)
ContactTypeOK ==
    /\ relaySet \subseteq Contacts /\ cache \subseteq Contacts
    /\ disk \in [readable : BOOLEAN, list : SUBSET Contacts]
    /\ running \in BOOLEAN
    /\ fetch \in [Fetches -> [state : {"idle", "asked", "answered"}, list : SUBSET Contacts]]
    /\ removing \subseteq Contacts /\ removed \subseteq Contacts /\ overlapped \subseteq Contacts

(* A contact this client removed is back in its cache only when an answer  *)
(* that named it was in flight at the removal: neither the file nor a      *)
(* restart nor a later fetch brings it back, and getCachedContact then     *)
(* accepts no message from it.                                             *)
RemovedStaysRemoved == \A c \in removed \ overlapped : running => c \notin cache

(* While the client runs, a cache file that can be read is the cache, so a *)
(* restart resumes with what was known last.                               *)
FileIsCache == running /\ disk.readable => disk.list = cache

(* The cache, its file and the removals of this client agree, however      *)
(* fetches, removals and restarts interleave.                              *)
CacheSound == ContactTypeOK /\ RemovedStaysRemoved /\ FileIsCache
=============================================================================
