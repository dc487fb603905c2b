--------------------------- MODULE Subscriptions ---------------------------
(***************************************************************************)
(* The commands on profiles: add, rm, default, sub and sub-update.  A      *)
(* refresh fetches a subscription, removes the profiles it owned, saves    *)
(* the new ones as sub-N and records them in SUBSCRIPTIONS.  A command     *)
(* that refuses its argument changes nothing and is not an action.         *)
(***************************************************************************)
EXTENDS Store

CONSTANTS
  AddBases,   \* names the user gives to `add`
  MaxLinks,   \* bound: links in a subscription
  MaxCrashes  \* bound: commands that are killed in a behaviour

ASSUME SubscriptionsAssumption ==
  AddBases \subseteq Bases /\ MaxLinks \in Nat \ {0} /\ MaxCrashes \in Nat

Init ==
  /\ files = [n \in {} |-> Torn]
  /\ default = NoName
  /\ owned = [u \in {} |-> {}]
  /\ killed = 0
  /\ pc = [c \in Clients |-> "idle"]
  /\ job = [c \in Clients |-> NoJob]

Start(c, label, j) ==
  /\ Step(c, "idle", label)
  /\ job' = [job EXCEPT ![c] = j]
  /\ UNCHANGED <<files, default, owned, killed>>

\* Bound: k names from base b on are left.
Room(b, k) == b + k <= MaxIndex + 1 /\ \A i \in b .. b + k - 1 : Free(i) # {}

Add(c) ==
  \E b \in AddBases :
    /\ Room(b, 1)
    /\ Start(c, "save", [NoJob EXCEPT !.cmd = "add", !.base = b])

Remove(c) ==
  \E n \in Readable :
    Start(c, "unlink", [NoJob EXCEPT !.cmd = "rm", !.phase = "remove", !.name = n])

SetDefault(c) ==
  \E n \in Readable :
    Start(c, "def_open", [NoJob EXCEPT !.cmd = "default", !.name = n])

\* cmd_sub and sub-update with a URL refresh one subscription, sub-update without
\* one every subscription of the map.
Refresh(c) ==
  \E U \in {{u} : u \in Urls} \cup ({DOMAIN owned} \ {{}}) :
    Start(c, "fetch", [NoJob EXCEPT !.cmd = "sub", !.urls = U])

-----------------------------------------------------------------------------
\* sub.next_index: one more than the largest N of a readable sub-N.
SubIndices == {i \in 0 .. MaxIndex : <<i, 1>> \in Readable}
NextIndex == IF SubIndices = {} THEN 0
             ELSE 1 + CHOOSE i \in SubIndices : \A j \in SubIndices : j <= i

\* The next URL, until none is left: a fetch that fails keeps its profiles.
NextUrl(c, U) ==
  IF U = {} THEN Finish(c)
  ELSE /\ pc' = [pc EXCEPT ![c] = "fetch"]
       /\ job' = [job EXCEPT ![c] = [NoJob EXCEPT !.cmd = "sub", !.urls = U]]

FetchFails(c) ==
  /\ At(c, "fetch")
  /\ \E u \in job[c].urls : NextUrl(c, job[c].urls \ {u})
  /\ UNCHANGED <<files, default, owned, killed>>

Fetched(c) ==
  /\ Step(c, "fetch", "purge")
  /\ \E u \in job[c].urls, k \in 1 .. MaxLinks :
       /\ Room(NextIndex, k) /\ Room(0, MaxIndex + 1)
       /\ job' = [job EXCEPT ![c] = [NoJob EXCEPT
            !.cmd = "sub", !.phase = "remove", !.url = u, !.links = k,
            !.left = k, !.urls = job[c].urls \ {u},
            !.todo = IF u \in DOMAIN owned THEN owned[u] ELSE {}]]
  /\ UNCHANGED <<files, default, owned, killed>>

\* Mutant: the list is not shortened by the name that was handled.
RemoveAgain(c) ==
  /\ At(c, "purge")
  /\ \E n \in job[c].todo :
       /\ job' = [job EXCEPT ![c].name = n]
       /\ pc' = [pc EXCEPT ![c] = IF n \in Readable THEN "unlink" ELSE "purge"]
  /\ UNCHANGED <<files, default, owned, killed>>

\* remove_names: load raises for a name that is gone or does not parse.
RemoveNext(c) ==
  /\ At(c, "purge")
  /\ \E n \in job[c].todo :
       /\ job' = [job EXCEPT ![c].todo = @ \ {n}, ![c].name = n]
       /\ pc' = [pc EXCEPT ![c] = IF n \in Readable THEN "unlink" ELSE "purge"]
  /\ UNCHANGED <<files, default, owned, killed>>

\* Mutant: the old profiles are not removed.
PurgeNothing(c) ==
  /\ Step(c, "purge", "save")
  /\ job' = [job EXCEPT ![c].phase = "save", ![c].base = NextIndex]
  /\ UNCHANGED <<files, default, owned, killed>>

AllRemoved(c) ==
  /\ Step(c, "purge", "save")
  /\ job[c].todo = {}
  /\ job' = [job EXCEPT ![c].phase = "save", ![c].base = NextIndex]
  /\ UNCHANGED <<files, default, owned, killed>>

\* set_url_profiles: load_map, then write_json truncates and writes.
ReadMap(c) ==
  /\ Step(c, "map_read", "map_open")
  /\ job' = [job EXCEPT ![c].map = Put(owned, job[c].url, job[c].saved)]
  /\ UNCHANGED <<files, default, owned, killed>>

OpenMap(c) ==
  /\ Step(c, "map_open", "map_write")
  /\ owned' = [u \in {} |-> {}]
  /\ UNCHANGED <<files, default, killed, job>>

WriteMap(c) ==
  /\ At(c, "map_write")
  /\ owned' = job[c].map
  /\ NextUrl(c, job[c].urls)
  /\ UNCHANGED <<files, default, killed>>

SubStep(c) ==
  \/ FetchFails(c) \/ Fetched(c) \/ RemoveNext(c) \/ AllRemoved(c)
  \/ ReadMap(c) \/ OpenMap(c) \/ WriteMap(c)

\* Killed or Ctrl-C between two statements: what was opened stays truncated.
Crash(c) ==
  /\ killed < MaxCrashes
  /\ pc[c] # "idle"
  /\ Finish(c)
  /\ killed' = killed + 1
  /\ UNCHANGED <<files, default, owned>>

Command(c) == StoreStep(c) \/ SubStep(c)

Next == \E c \in Clients :
  Command(c) \/ Add(c) \/ Remove(c) \/ SetDefault(c) \/ Refresh(c) \/ Crash(c)

\* A command that was started runs on.
Spec == Init /\ [][Next]_storeVars /\ \A c \in Clients : WF_storeVars(Command(c))

=============================================================================
