----------------------------- MODULE SessionFile -----------------------------
(* The session file: logins save it (StoredSession::save) while a serving      *)
(* process polls it and hands over to the session it finds. The machine may    *)
(* crash: a file's contents survive if they were synced, the directory entry   *)
(* survives if the directory was synced, and either may survive otherwise.     *)
EXTENDS Naturals, FiniteSets

CONSTANTS Savers,      \* calls of save; each writes a temporary file of its own
          MaxCrashes   \* bound: crashes of the machine

ASSUME SavesAssumption == 0 \notin Savers /\ MaxCrashes \in Nat

NoFile == "none"
First  == "first"      \* the file that is there before anything runs
Files  == Savers \cup {First}

VARIABLES entry,       \* the file the path names
          onDisk,      \* what it named when the directory was last synced
          whole,       \* files whose contents are complete
          synced,      \* files whose contents are on disk
          temps,       \* temporary files that exist
          saver,       \* saver -> "idle", the next step of save, or its result
          rank,        \* file -> its position in the order of renames (history)
          kept,        \* rank of the entry when a save last returned Ok (history)
          crashes,
          serve,       \* the serving process
          seen, cand,  \* fingerprint last looked at; file being restored
          tried,       \* file that was last read by an attempt (history)
          served       \* file of the active session

diskVars  == <<entry, onDisk, whole, synced, temps, saver, rank, kept>>
serveVars == <<serve, seen, cand, tried, served>>
fileVars  == <<diskVars, crashes, serveVars>>

SaveSteps == {"create", "write", "sync", "rename", "syncdir"}

FileTypeOK ==
    /\ entry \in Files \cup {NoFile} /\ onDisk \in Files \cup {NoFile}
    /\ whole \subseteq Files /\ synced \subseteq whole /\ temps \subseteq Savers
    /\ saver \in [Savers -> SaveSteps \cup {"idle", "ok", "failed", "lost"}]
    /\ rank \in [Files -> 0..Cardinality(Savers)] /\ kept \in 0..Cardinality(Savers)
    /\ crashes \in 0..MaxCrashes
    /\ serve \in {"off", "boot", "poll", "read", "validate", "stopped"}
    /\ {seen, cand, tried, served} \subseteq Files \cup {NoFile}

FileInit ==
    /\ entry = First /\ onDisk = First /\ whole = {First} /\ synced = {First} /\ temps = {}
    /\ saver = [w \in Savers |-> "idle"]
    /\ rank = [f \in Files |-> 0] /\ kept = 0 /\ crashes = 0
    /\ serve = "off" /\ seen = NoFile /\ cand = NoFile /\ tried = NoFile /\ served = NoFile

To(w, step) == saver' = [saver EXCEPT ![w] = step]

----------------------------------------------------------------------------
(* save: one action per step; each step may fail, see SaveFails *)
SaveBegin(w) ==
    /\ saver[w] = "idle" /\ To(w, "create")
    /\ UNCHANGED <<entry, onDisk, whole, synced, temps, rank, kept, crashes, serveVars>>

SaveCreate(w) ==
    /\ saver[w] = "create"
    /\ temps' = temps \cup {w} /\ To(w, "write")
    /\ UNCHANGED <<entry, onDisk, whole, synced, rank, kept, crashes, serveVars>>

SaveWrite(w) ==
    /\ saver[w] = "write"
    /\ whole' = whole \cup {w} /\ To(w, "sync")
    /\ UNCHANGED <<entry, onDisk, synced, temps, rank, kept, crashes, serveVars>>

SyncedNot(w) == synced
(* sync_all before the rename *)
SyncedWith(w) == synced \cup {w}

SaveSync(w) ==
    /\ saver[w] = "sync"
    /\ synced' = SyncedWith(w) /\ To(w, "rename")
    /\ UNCHANGED <<entry, onDisk, whole, temps, rank, kept, crashes, serveVars>>

Renamed == Cardinality({f \in Files : rank[f] > 0})

SaveRename(w) ==
    /\ saver[w] = "rename"
    /\ entry' = w
    /\ temps' = temps \ {w}
    /\ rank' = [rank EXCEPT ![w] = Renamed + 1]
    /\ To(w, "syncdir")
    /\ UNCHANGED <<onDisk, whole, synced, kept, crashes, serveVars>>

DirUnsynced == onDisk
DirSynced == entry

SaveReturns(w) ==
    /\ saver[w] = "syncdir"
    /\ onDisk' = DirSynced
    /\ kept' = IF entry = NoFile THEN 0 ELSE rank[entry]
    /\ To(w, "ok")
    /\ UNCHANGED <<entry, whole, synced, temps, rank, crashes, serveVars>>

(* An I/O error: the temporary file is removed. After the rename there is    *)
(* none, and save reports an error although the path names the new file.     *)
SaveFails(w) ==
    /\ saver[w] \in SaveSteps
    /\ temps' = temps \ {w} /\ To(w, "failed")
    /\ UNCHANGED <<entry, onDisk, whole, synced, rank, kept, crashes, serveVars>>

(* somebody removes the session file *)
RemoveFile ==
    /\ entry # NoFile
    /\ entry' = NoFile /\ onDisk' = NoFile /\ kept' = 0
    /\ UNCHANGED <<whole, synced, temps, saver, rank, crashes, serveVars>>

(* The machine stops: the path names the entry on disk or the present one,   *)
(* and any part of the unsynced contents is lost.                            *)
Crash ==
    /\ crashes < MaxCrashes /\ crashes' = crashes + 1
    /\ entry' \in {onDisk, entry} /\ onDisk' = entry'
    /\ whole' \in {synced \cup keptParts : keptParts \in SUBSET (whole \ synced)}
    /\ saver' = [w \in Savers |-> IF saver[w] \in SaveSteps THEN "lost" ELSE saver[w]]
    /\ serve' = "off" /\ seen' = NoFile /\ cand' = NoFile /\ tried' = NoFile /\ served' = NoFile
    /\ UNCHANGED <<synced, temps, rank, kept>>

----------------------------------------------------------------------------
(* `serve`: the fingerprint is read before the file is restored. *)
ServeStart ==
    /\ serve = "off"
    /\ serve' = "boot" /\ seen' = entry
    /\ UNCHANGED <<diskVars, crashes, cand, tried, served>>

(* restore_session and start; an error ends the process *)
ServeBoot ==
    /\ serve = "boot"
    /\ \/ /\ entry \in whole
          /\ serve' = "poll" /\ tried' = entry /\ served' = entry
       \/ serve' = "stopped" /\ UNCHANGED <<tried, served>>
    /\ UNCHANGED <<diskVars, crashes, seen, cand>>

(* `seen` takes the fingerprint before the attempt, whatever its outcome. *)
ServePoll ==
    /\ serve = "poll"
    /\ entry # seen /\ entry # NoFile
    /\ seen' = entry /\ serve' = "read"
    /\ UNCHANGED <<diskVars, crashes, cand, tried, served>>

(* import_session_file: a file that is gone or cut short is rejected *)
ServeRead ==
    /\ serve = "read"
    /\ tried' = entry
    /\ IF entry \in whole THEN cand' = entry /\ serve' = "validate"
                          ELSE cand' = NoFile /\ serve' = "poll"
    /\ UNCHANGED <<diskVars, crashes, seen, served>>

ServeInstallThenSee ==
    /\ serve = "validate"
    /\ served' \in {cand, served} /\ seen' = entry
    /\ cand' = NoFile /\ serve' = "poll"
    /\ UNCHANGED <<diskVars, crashes, tried>>

(* auth_config, online_info and replace_session accept it or reject it *)
ServeInstall ==
    /\ serve = "validate"
    /\ served' \in {cand, served}
    /\ cand' = NoFile /\ serve' = "poll"
    /\ UNCHANGED <<diskVars, crashes, seen, tried>>

(* the stop signal, also in the middle of an attempt *)
ServeStops ==
    /\ serve \in {"poll", "read", "validate"}
    /\ serve' = "stopped" /\ cand' = NoFile
    /\ UNCHANGED <<diskVars, crashes, seen, tried, served>>

FileNext ==
    \/ \E w \in Savers : \/ SaveBegin(w) \/ SaveCreate(w) \/ SaveWrite(w) \/ SaveSync(w)
                         \/ SaveRename(w) \/ SaveReturns(w) \/ SaveFails(w)
    \/ RemoveFile \/ Crash
    \/ ServeStart \/ ServeBoot \/ ServePoll \/ ServeRead \/ ServeInstall \/ ServeStops

FileSpec == FileInit /\ [][FileNext]_fileVars

(* The poll timer ticks and each request of an attempt has a timeout. *)
FileFairness == WF_fileVars(ServePoll) /\ WF_fileVars(ServeRead) /\ WF_fileVars(ServeInstall)

----------------------------------------------------------------------------
(* Whenever and however often savers and crashes interleave, the path never  *)
(* names a file that load would find cut short.                              *)
FileAlwaysWhole == entry # NoFile => entry \in whole

(* A save that returned Ok is not lost by a crash: the path names the file   *)
(* it named then or one that was renamed later.                              *)
AcknowledgedSaveKept == entry # NoFile => rank[entry] >= kept

(* StoredSession::save as its callers rely on it: the path names a whole file *)
(* at all times, and none older than the last save that returned Ok.          *)
SavesAreDurable == FileAlwaysWhole /\ AcknowledgedSaveKept

(* A session file written while another reload is in progress is not missed: *)
(* as long as the process serves, it ends up having tried the file that the  *)
(* path names. (An attempt that fails is not repeated for the same file.)    *)
LatestFileTried == <>[](serve = "poll" => entry \in {tried, NoFile})
=============================================================================
