---------------------------- MODULE VersionedFile ----------------------------
(***************************************************************************)
(* The versions of one file of a superevent or event: `name,0', `name,1'   *)
(* and so on in its data directory, the symbolic link `name' to the latest *)
(* of them, and the log messages that say which versions there are.        *)
(*                                                                         *)
(* Several uploads of the same name may be at work at once, each one a     *)
(* sequence of system calls; downloads follow the link, or ask for a       *)
(* version.  Files that are not versioned do not occur: nothing in the     *)
(* program writes one.                                                     *)
(***************************************************************************)
EXTENDS Naturals, FiniteSets

CONSTANTS
    Writers,       \* the uploads
    Readers,       \* the downloads
    None,
    MaxAttempts,   \* how often opening a new version is attempted; 5 in the code
    MayCrash       \* may the process of an upload die between two system calls?

ASSUME WritersAssumption == IsFiniteSet(Writers) /\ Writers \cap Readers = {}
ASSUME NoneAssumption == None \notin Writers \cup Nat
ASSUME AttemptsAssumption == MaxAttempts \in Nat \ {0}
ASSUME SwitchAssumption == MayCrash \in BOOLEAN

VARIABLES
    writer,     \* the upload that created each version, None when there is no such file
    complete,   \* the versions that are written to the end
    link,       \* the version the link points to, None when there is no link
    logged,     \* the versions that have a log message
    at,
    version,    \* the version each upload tries, and then has
    attempts,   \* how often the upload has found its version taken
    last,       \* the version it is going to point the link to
    served,     \* what each download got: a version, None when it was refused
    seen,       \* history: the versions there were when the upload began
    alone       \* history: the uploads that no other overlaps

fileVars == <<writer, complete, link, logged, at, version, attempts, last, served, seen, alone>>
files == <<writer, complete, link, logged>>

Versions == 0 .. Cardinality(Writers) - 1
Attempted == 0 .. Cardinality(Writers) + MaxAttempts

known_versions == {v \in Versions : writer[v] # None}

\* The greatest member of a set of versions, as a set.
Latest(S) == {v \in S : \A u \in S : u <= v}

WriterSteps == {"start", "open", "list", "unlink", "symlink", "close", "log",
                "done", "failed", "crashed"}

Resting == {"start", "done", "failed", "crashed"}
Active == {w \in Writers : at[w] \notin Resting}

FileTypeOK ==
    /\ writer \in [Versions -> Writers \cup {None}]
    /\ complete \subseteq known_versions
    /\ link \in Versions \cup {None}
    /\ logged \subseteq known_versions
    /\ \A w \in Writers : at[w] \in WriterSteps
    /\ \A r \in Readers : at[r] \in {"start", "serve", "done"}
    /\ version \in [Writers -> Attempted]
    /\ attempts \in [Writers -> 0 .. MaxAttempts]
    /\ \A w \in Writers : attempts[w] = MaxAttempts <=> at[w] = "failed"
    /\ last \in [Writers -> Versions]
    /\ served \in [Readers -> Versions \cup {None}]
    /\ seen \in [Writers -> SUBSET Versions]
    /\ alone \subseteq Writers

GoOn(p, step) == at' = [at EXCEPT ![p] = step]

-----------------------------------------------------------------------------
(* VersionedFile.__init__.                                                 *)

\* max([-1] + self.known_versions()) + 1
NextVersion == IF known_versions = {} THEN {0} ELSE {v + 1 : v \in Latest(known_versions)}

Start(w) ==
    /\ at[w] = "start"
    /\ \E v \in NextVersion : version' = [version EXCEPT ![w] = v]
    /\ seen' = [seen EXCEPT ![w] = known_versions]
    /\ alone' = IF Active = {} THEN {w} ELSE {}
    /\ GoOn(w, "open")
    /\ UNCHANGED <<files, attempts, last, served>>

\* A bug: without O_EXCL a version that is there is opened as well.
OpenAny(v) == v \in Versions

\* os.open(..., O_CREAT | O_EXCL) succeeds.
MayOpen(v) == v \in Versions /\ writer[v] = None

Open(w) ==
    /\ at[w] = "open"
    /\ MayOpen(version[w])
    /\ writer' = [writer EXCEPT ![version[w]] = w]
    /\ GoOn(w, "list")
    /\ UNCHANGED <<complete, link, logged, version, attempts, last, served, seen, alone>>

\* A bug: the upload never gives up.
NeverOut(w) == FALSE

\* A bug: the upload gives up one attempt too early.
LastAttempt(w) == attempts[w] + 2 >= MaxAttempts

OutOfAttempts(w) == attempts[w] + 1 = MaxAttempts

\* EEXIST: the next version is tried, a bounded number of times.
VersionExists(w) ==
    /\ at[w] = "open"
    /\ ~ MayOpen(version[w])
    /\ version' = [version EXCEPT ![w] = @ + 1]
    /\ attempts' = [attempts EXCEPT ![w] = @ + 1]
    /\ IF OutOfAttempts(w) THEN GoOn(w, "failed") ELSE GoOn(w, "open")
    /\ UNCHANGED <<files, last, served, seen, alone>>

-----------------------------------------------------------------------------
(* write, which may leave part of the contents in a buffer, and close with *)
(* its _repoint_symlink.                                                   *)

\* A bug: the link is pointed to the first version.
FirstVersion == {v \in known_versions : \A u \in known_versions : v <= u}

LastVersion == Latest(known_versions)

List(w) ==
    /\ at[w] = "list"
    /\ \E v \in LastVersion : last' = [last EXCEPT ![w] = v]
    /\ GoOn(w, "unlink")
    /\ UNCHANGED <<files, version, attempts, served, seen, alone>>

Unlink(w) ==
    /\ at[w] = "unlink"
    /\ link' = None
    /\ GoOn(w, "symlink")
    /\ UNCHANGED <<writer, complete, logged, version, attempts, last, served, seen, alone>>

\* A bug: an upload that has been overtaken makes no link.
SymlinkOwn(w) ==
    /\ at[w] = "symlink"
    /\ link' = IF link = None /\ last[w] = version[w] THEN last[w] ELSE link
    /\ GoOn(w, "close")
    /\ UNCHANGED <<writer, complete, logged, version, attempts, last, served, seen, alone>>

\* The link, unless another upload has made one.
Symlink(w) ==
    /\ at[w] = "symlink"
    /\ link' = IF link = None THEN last[w] ELSE link
    /\ GoOn(w, "close")
    /\ UNCHANGED <<writer, complete, logged, version, attempts, last, served, seen, alone>>

\* A bug: the file is not closed.
LeaveOpen(w) ==
    /\ at[w] = "close"
    /\ GoOn(w, "log")
    /\ UNCHANGED <<files, version, attempts, last, served, seen, alone>>

\* file.close() writes out what is buffered.
Close(w) ==
    /\ at[w] = "close"
    /\ complete' = complete \cup {version[w]}
    /\ GoOn(w, "log")
    /\ UNCHANGED <<writer, link, logged, version, attempts, last, served, seen, alone>>

\* create_log makes the log message when create_versioned_file has returned.
Log(w) ==
    /\ at[w] = "log"
    /\ logged' = logged \cup {version[w]}
    /\ GoOn(w, "done")
    /\ UNCHANGED <<writer, complete, link, version, attempts, last, served, seen, alone>>

Crash(w) ==
    /\ MayCrash
    /\ w \in Active
    /\ GoOn(w, "crashed")
    /\ UNCHANGED <<files, version, attempts, last, served, seen, alone>>

-----------------------------------------------------------------------------
(* SupereventFileViewSet.retrieve.                                         *)

\* A bug: the log message is not looked up.
ResolveAnyway(r) ==
    /\ at[r] = "start"
    /\ GoOn(r, IF link # None THEN "serve" ELSE "done")
    /\ UNCHANGED <<files, version, attempts, last, served, seen, alone>>

\* A download of `name': the link is followed, and the log message of the version
\* is looked up; without one the answer is 404.
Resolve(r) ==
    /\ at[r] = "start"
    /\ GoOn(r, IF link \in logged THEN "serve" ELSE "done")
    /\ UNCHANGED <<files, version, attempts, last, served, seen, alone>>

\* check_and_serve_file is given `name' itself, and follows the link again.
Serve(r) ==
    /\ at[r] = "serve"
    /\ served' = [served EXCEPT ![r] = link]
    /\ GoOn(r, "done")
    /\ UNCHANGED <<files, version, attempts, last, seen, alone>>

LoggedVersions == logged

\* A download of `name,v'.
ServeVersion(r) ==
    /\ at[r] = "start"
    /\ \E v \in LoggedVersions : served' = [served EXCEPT ![r] = v]
    /\ GoOn(r, "done")
    /\ UNCHANGED <<files, version, attempts, last, seen, alone>>

-----------------------------------------------------------------------------
FileInit ==
    /\ writer = [v \in Versions |-> None]
    /\ complete = {}
    /\ link = None
    /\ logged = {}
    /\ at = [p \in Writers \cup Readers |-> "start"]
    /\ version = [w \in Writers |-> 0]
    /\ attempts = [w \in Writers |-> 0]
    /\ last = [w \in Writers |-> 0]
    /\ served = [r \in Readers |-> None]
    /\ seen = [w \in Writers |-> {}]
    /\ alone = {}

Upload(w) == \/ Start(w) \/ Open(w) \/ VersionExists(w) \/ List(w) \/ Unlink(w)
             \/ Symlink(w) \/ Close(w) \/ Log(w)

Download(r) == Resolve(r) \/ Serve(r) \/ ServeVersion(r)

FileNext == \/ \E w \in Writers : Upload(w) \/ Crash(w)
            \/ \E r \in Readers : Download(r)

FileSpec == FileInit /\ [][FileNext]_fileVars

-----------------------------------------------------------------------------
(* Properties.                                                             *)

\* The versions are numbered 0, 1, 2, ... with none left out, whatever overlaps or fails.
VersionsContiguous == \A v \in known_versions : \A u \in 0 .. v : u \in known_versions

\* The version an upload has created, as a set.
Own(w) == {v \in Versions : writer[v] = w}

\* The versions as numbers from 1, 0 for an upload that has none.
NumberOf(S) == IF S = {} THEN 0 ELSE 1 + CHOOSE v \in S : TRUE
FileNumbers == [w \in Writers |-> NumberOf(Own(w))]
Takers == {w \in Writers : Own(w) # {}}

\* The uploads implement a sequence of numbers handed out one at a time, the same as the calls
\* of AutoIncrement do, with one system call instead of a unique constraint: an upload that
\* opens a file takes the least version nobody has, and nobody ever loses one.
FileSequence == INSTANCE NumberSequence WITH
    Saves <- Writers, Groups <- {"file"}, group <- [w \in Writers |-> "file"],
    N <- FileNumbers, taken <- Takers, deletes <- 0
UploadsImplementSequence == FileSequence!Spec

\* A log message is only about a version that is written to the end, and so a download
\* that asks for a version gets all of it.
LoggedAreComplete == logged \subseteq complete

\* An upload only fails when as many others as it has attempts have created a version
\* since it began.
FailureNeedsCrowd ==
    \A w \in Writers :
        at[w] = "failed" => Cardinality(known_versions \ seen[w]) >= MaxAttempts

Crashed == {w \in Writers : at[w] = "crashed"}

\* Once no upload is at work, a file that has a version has its link: each upload
\* takes the link of another away, and relies on one of them to put one back.
LinkIsThere == Active = {} /\ Crashed = {} /\ known_versions # {} => link # None

\* Once no upload is at work, the link points to the latest version.
LinkIsLatest == Active = {} /\ known_versions # {} => link \in Latest(known_versions)

\* Whatever overlapping uploads and crashes made of the link, an upload that runs alone
\* points it to its own version, which is the latest.
UploadRepairsLink ==
    [][ \A w \in Writers :
          Log(w) /\ alone = {w} => link = version[w] /\ link \in Latest(known_versions) ]_fileVars

\* Nothing is served of a file before the first log message about it, whose permissions
\* decide who may have it.
ServedAfterLog == \A r \in Readers : served[r] # None => logged # {}
=============================================================================
