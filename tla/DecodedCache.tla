---------------------------- MODULE DecodedCache ----------------------------
(***************************************************************************)
(* Two layers of cached decoded bodies over the article source, for one    *)
(* message id (internal/nntp/cached_source.go, disk_cached_source.go), and *)
(* the guard of fetcher.go that forgets a body which is not where its      *)
(* header says it belongs.  Each layer keeps the body and its PartInfo in  *)
(* caches of their own and has a single flight of its own; every access to *)
(* one of them is a step.                                                  *)
(*                                                                         *)
(* A copy is the number of the fetch that brought it.  A provider answers  *)
(* with the right article or with another one; a body and a PartInfo of    *)
(* the same copy agree.  Evictions and decode failures are left out.       *)
(***************************************************************************)
EXTENDS Integers, FiniteSets

CONSTANTS
  Readers,  \* callers of FetchRangeInfoPriority
  Fetches   \* bound on the articles brought from the providers

VARIABLES
  ram,      \* cache and infoCache of CachedDecodedSource
  disk,     \* cache and partInfo of DiskCachedDecodedSource
  flight,   \* the flight of each layer: its leader, if any
  fetched,  \* how many copies were brought, and which of them are wrong
  reader    \* per reader: where it is, the body and the PartInfo it holds

decodedVars == <<ram, disk, flight, fetched, reader>>

NoCopy == 0
Copies == 1 .. Fetches
Layers == {"ram", "disk"}
Nobody == "nobody"
Ready == [pc |-> "ready", body |-> NoCopy, info |-> NoCopy]
Steps == {"ready", "ramInfo", "ramJoin", "ramWait", "disk", "diskInfo", "diskJoin", "diskWait",
          "diskAgain", "fetch", "diskPut", "infoPut", "flightInfo", "refetch", "refill", "ramPut",
          "ramInfoPut", "check", "forgetRam", "forgetRamInfo", "forgetDisk", "forgetInfo", "rejected"}

TypeOK ==
  /\ ram \in [body : Copies \cup {NoCopy}, info : Copies \cup {NoCopy}]
  /\ disk \in [body : Copies \cup {NoCopy}, info : Copies \cup {NoCopy}]
  /\ flight \in [Layers -> Readers \cup {Nobody}]
  /\ fetched.count \in 0 .. Fetches /\ fetched.wrong \subseteq 1 .. fetched.count
  /\ \A r \in Readers : reader[r].pc \in Steps

Empty == [body |-> NoCopy, info |-> NoCopy]

Init ==
  /\ ram = Empty
  /\ disk = Empty
  /\ flight = [l \in Layers |-> Nobody]
  /\ fetched = [count |-> 0, wrong |-> {}]
  /\ reader = [r \in Readers |-> Ready]

-----------------------------------------------------------------------------
At(r, pc) == reader[r].pc = pc
Goes(r, pc) == reader' = [reader EXCEPT ![r].pc = pc]
Holds(r, pc, field, copy) == reader' = [reader EXCEPT ![r] = [[@ EXCEPT ![field] = copy] EXCEPT !.pc = pc]]

\* A provider is asked: a new copy, right or wrong.
Brought == fetched' \in {[count |-> fetched.count + 1, wrong |-> w] :
                          w \in {fetched.wrong, fetched.wrong \cup {fetched.count + 1}}}

\* Do: lead the layer's flight, or wait for it.
Join(r, layer, from, lead, wait) ==
  /\ At(r, from)
  /\ IF flight[layer] = Nobody
     THEN /\ flight' = [flight EXCEPT ![layer] = r]
          /\ Goes(r, lead)
     ELSE /\ Goes(r, wait)
          /\ UNCHANGED flight
  /\ UNCHANGED <<ram, disk, fetched>>

\* The leader's result goes to those who wait, and the flight ends.
Landed(r, layer, wait, after, body, info) ==
  /\ flight' = [flight EXCEPT ![layer] = Nobody]
  /\ reader' = [q \in Readers |->
       IF q = r \/ At(q, wait) THEN [pc |-> after, body |-> body, info |-> info] ELSE reader[q]]

-----------------------------------------------------------------------------
(* CachedDecodedSource.DecodedBodyInfoPriority *)

RamBody(r) ==
  /\ At(r, "ready")
  /\ IF ram.body # NoCopy THEN Holds(r, "ramInfo", "body", ram.body) ELSE Goes(r, "ramJoin")
  /\ UNCHANGED <<ram, disk, flight, fetched>>

RamInfo(r) ==
  /\ At(r, "ramInfo")
  /\ IF ram.info # NoCopy THEN Holds(r, "check", "info", ram.info) ELSE Goes(r, "ramJoin")
  /\ UNCHANGED <<ram, disk, flight, fetched>>

RamPut(r) ==
  /\ At(r, "ramPut")
  /\ ram' = [ram EXCEPT !.body = reader[r].body]
  /\ Goes(r, "ramInfoPut")
  /\ UNCHANGED <<disk, flight, fetched>>

\* The PartInfo is kept too, invalid ones as such: those are not looked at again here.
RamInfoPut(r) ==
  /\ At(r, "ramInfoPut")
  /\ ram' = [ram EXCEPT !.info = reader[r].info]
  /\ Landed(r, "ram", "ramWait", "check", reader[r].body, reader[r].info)
  /\ UNCHANGED <<disk, fetched>>

-----------------------------------------------------------------------------
(* DiskCachedDecodedSource.DecodedBodyInfoPriority *)

DiskBody(r) ==
  /\ At(r, "disk")
  /\ IF disk.body # NoCopy THEN Holds(r, "diskInfo", "body", disk.body) ELSE Goes(r, "diskJoin")
  /\ UNCHANGED <<ram, disk, flight, fetched>>

\* lookupPartInfo, after a hit or after the flight.
LookupPartInfo(r) ==
  /\ reader[r].pc \in {"diskInfo", "flightInfo"}
  /\ IF disk.info # NoCopy THEN Holds(r, "ramPut", "info", disk.info) ELSE Goes(r, "refetch")
  /\ UNCHANGED <<ram, disk, flight, fetched>>

\* fillPartInfoFromRaw: the article is fetched again for its header alone; a fetch
\* that fails leaves the estimate.
Refetch(r) ==
  /\ At(r, "refetch")
  /\ \/ /\ fetched.count < Fetches
        /\ Brought
        /\ Holds(r, "refill", "info", fetched.count + 1)
     \/ /\ Holds(r, "ramPut", "info", NoCopy)
        /\ UNCHANGED fetched
  /\ UNCHANGED <<ram, disk, flight>>

Refill(r) ==
  /\ At(r, "refill")
  /\ disk' = [disk EXCEPT !.info = reader[r].info]
  /\ Goes(r, "ramPut")
  /\ UNCHANGED <<ram, flight, fetched>>

\* The leader of the disk flight looks again before it fetches.
DiskAgain(r) ==
  /\ At(r, "diskAgain")
  /\ IF disk.body # NoCopy
     THEN Landed(r, "disk", "diskWait", "flightInfo", disk.body, NoCopy)
     ELSE /\ Goes(r, "fetch")
          /\ UNCHANGED flight
  /\ UNCHANGED <<ram, disk, fetched>>

Fetch(r) ==
  /\ At(r, "fetch")
  /\ fetched.count < Fetches
  /\ Brought
  /\ Holds(r, "diskPut", "body", fetched.count + 1)
  /\ UNCHANGED <<ram, disk, flight>>

DiskPut(r) ==
  /\ At(r, "diskPut")
  /\ disk' = [disk EXCEPT !.body = reader[r].body]
  /\ Goes(r, "infoPut")
  /\ UNCHANGED <<ram, flight, fetched>>

InfoPut(r) ==
  /\ At(r, "infoPut")
  /\ disk' = [disk EXCEPT !.info = reader[r].body]
  /\ Landed(r, "disk", "diskWait", "flightInfo", reader[r].body, NoCopy)
  /\ UNCHANGED <<ram, fetched>>

-----------------------------------------------------------------------------
(* FetchRangeInfoPriority and InvalidateCached *)

\* A PartInfo that puts the body far from its segment is a failure, and the caches of
\* both layers are told to forget it; an absent one is not checked.
Check(r) ==
  /\ At(r, "check")
  /\ reader' = [reader EXCEPT ![r] = IF reader[r].info \in fetched.wrong THEN [@ EXCEPT !.pc = "forgetRam"]
                                     ELSE Ready]
  /\ UNCHANGED <<ram, disk, flight, fetched>>

ForgetRam(r) ==
  /\ \/ At(r, "forgetRam") /\ ram' = [ram EXCEPT !.body = NoCopy] /\ Goes(r, "forgetRamInfo")
     \/ At(r, "forgetRamInfo") /\ ram' = [ram EXCEPT !.info = NoCopy] /\ Goes(r, "forgetDisk")
  /\ UNCHANGED <<disk, flight, fetched>>

\* The layer below is not told.
M_ForgetDisk(r) ==
  /\ At(r, "forgetDisk") /\ Goes(r, "rejected")
  /\ UNCHANGED <<ram, disk, flight, fetched>>

ForgetDisk(r) ==
  /\ \/ At(r, "forgetDisk") /\ disk' = [disk EXCEPT !.body = NoCopy] /\ Goes(r, "forgetInfo")
     \/ At(r, "forgetInfo") /\ disk' = [disk EXCEPT !.info = NoCopy] /\ Goes(r, "rejected")
  /\ UNCHANGED <<ram, flight, fetched>>

\* The caller has its error and reads again.
Retry(r) ==
  /\ At(r, "rejected")
  /\ reader' = [reader EXCEPT ![r] = Ready]
  /\ UNCHANGED <<ram, disk, flight, fetched>>

\* The process ends: the files of the disk cache are all that is left.
Restart ==
  /\ ram' = Empty
  /\ disk' = [disk EXCEPT !.info = NoCopy]
  /\ flight' = [l \in Layers |-> Nobody]
  /\ reader' = [r \in Readers |-> Ready]
  /\ UNCHANGED fetched

Next ==
  \/ Restart
  \/ \E r \in Readers :
      \/ RamBody(r) \/ RamInfo(r) \/ RamPut(r) \/ RamInfoPut(r)
      \/ Join(r, "ram", "ramJoin", "disk", "ramWait")
      \/ DiskBody(r) \/ LookupPartInfo(r) \/ Refetch(r) \/ Refill(r)
      \/ Join(r, "disk", "diskJoin", "diskAgain", "diskWait")
      \/ DiskAgain(r) \/ Fetch(r) \/ DiskPut(r) \/ InfoPut(r)
      \/ Check(r) \/ ForgetRam(r) \/ ForgetDisk(r) \/ Retry(r)

Spec == Init /\ [][Next]_decodedVars

-----------------------------------------------------------------------------
\* A copy that was found to be the wrong one is out of both layers when the read that
\* found it fails, so the next fetch goes back to the source instead of replaying it
\* (disk_cached_source.go:223-231).
RejectedIsForgotten ==
  \A r \in Readers : At(r, "rejected") => reader[r].body \notin {ram.body, disk.body}
\* For a sole reader: it has the body it looks at, and what it has told a layer to
\* forget is forgotten until it is done.
HasBody == Steps \ {"ready", "ramJoin", "ramWait", "disk", "diskJoin", "diskWait", "diskAgain", "fetch"}
ForgottenInv ==
  /\ ram \in [body : Nat, info : Nat] /\ disk \in [body : Nat, info : Nat]
  /\ fetched.count \in Nat
  /\ reader \in [Readers -> [pc : Steps, body : Nat, info : Nat]]
  /\ \A r \in Readers :
       /\ reader[r].pc \in HasBody => reader[r].body # NoCopy
       /\ reader[r].pc \in {"forgetRamInfo", "forgetDisk", "forgetInfo", "rejected"} => ram.body = NoCopy
       /\ reader[r].pc \in {"forgetInfo", "rejected"} => disk.body = NoCopy
=============================================================================
