---------------------------- MODULE JobCatalogue ----------------------------
(***************************************************************************)
(* One job of the catalogue, edited, published and matched concurrently.   *)
(*                                                                         *)
(* An edit appends a version.  A request reads the row of the job, then    *)
(* its versions in a second statement, which may see later commits; what   *)
(* it writes appears with its commit.  No row is locked while a request    *)
(* thinks: that a version number is unique is all that keeps two edits     *)
(* apart.  Indexing, which follows the commit, is IndexGenerations.        *)
(***************************************************************************)
EXTENDS Naturals

CONSTANTS
    Requests,
    Texts,         \* job descriptions
    MaxVersion,    \* bound: versions of the job
    Nothing

ASSUME TextsAssumption == "" \notin Texts /\ Nothing \notin Texts \cup {""}
ASSUME NothingAssumption == Nothing \notin BOOLEAN /\ Nothing \notin [text : Texts \cup {""}, complete : BOOLEAN]
ASSUME BoundAssumption == MaxVersion \in Nat \ {0}

VARIABLES
    status,    \* "none" before the job is created
    current,   \* current_version
    version,   \* version[n]: the immutable version, if there is one
    request,   \* request[p]: what a request has read and means to write
    matched    \* what the last match found

vars == <<status, current, version, request, matched>>

-----------------------------------------------------------------------------
Numbers  == 1 .. MaxVersion
Versions == [text : Texts \cup {""}, complete : BOOLEAN]

\* A request's fields that are Nothing are left as they are.
Edits == [text : Texts \cup {"", Nothing}, complete : BOOLEAN \cup {Nothing}]
NoEdit == [text |-> Nothing, complete |-> Nothing]

Operations == {"none", "update", "activate", "deactivate", "match"}
Idle == [op |-> "none", step |-> "idle", edit |-> NoEdit, status |-> "none",
         current |-> 0, latest |-> Nothing]

Init == /\ status = "none" /\ current = 0
        /\ version = [n \in Numbers |-> Nothing]
        /\ request = [p \in Requests |-> Idle]
        /\ matched = Nothing

At(p, step) == request[p].step = step
Latest == CHOOSE n \in Numbers : version[n] # Nothing /\
             \A k \in Numbers : version[k] # Nothing => k <= n

-----------------------------------------------------------------------------
\* create_job: the job and its first version in one transaction.
Create == /\ status = "none"
          /\ status' = "draft" /\ current' = 1
          /\ \E v \in Versions : version' = [version EXCEPT ![1] = v]
          /\ UNCHANGED <<request, matched>>

\* The row of the job is read.  Only published jobs are matched.
ReadJob(p, op, edit) ==
    /\ At(p, "idle") /\ status # "none"
    /\ op = "match" => status = "active"
    /\ request' = [request EXCEPT ![p] = [Idle EXCEPT !.op = op, !.step = "versions", !.edit = edit,
                                            !.status = status, !.current = current]]
    /\ UNCHANGED <<status, current, version, matched>>

\* Its versions are read: the last of them for an edit or a publication.
ReadVersions(p) ==
    /\ At(p, "versions") /\ request[p].op # "match"
    /\ request' = [request EXCEPT ![p].step = "commit", ![p].latest = version[Latest]]
    /\ UNCHANGED <<status, current, version, matched>>

\* Defect: a match takes the last version it finds.
LastVersion(p) == Latest

\* A match takes the version that the row of the job calls current.
MatchedVersion(p) == request[p].current

Match(p) == /\ At(p, "versions") /\ request[p].op = "match"
            /\ matched' = [number |-> MatchedVersion(p), content |-> version[MatchedVersion(p)],
                           read |-> request[p].current]
            /\ request' = [request EXCEPT ![p] = Idle]
            /\ UNCHANGED <<status, current, version>>

\* The new version: what is not edited is taken over from the last one.
Edited(latest, edit) ==
    [text     |-> IF edit.text = Nothing THEN latest.text ELSE edit.text,
     complete |-> IF edit.complete = Nothing THEN latest.complete ELSE edit.complete]

\* Defect: a version of the same number is replaced.
AlwaysFree(n) == TRUE

\* uq_job_version
Free(n) == version[n] = Nothing

\* Defect: the number is taken when the version is written.
NumberAtCommit(p) == current + 1

\* The number follows the one that the request has read.
NewNumber(p) == request[p].current + 1

Update(p) == LET n == NewNumber(p) IN
             /\ At(p, "commit") /\ request[p].op = "update"
             /\ n \in Numbers /\ Free(n)
             /\ version' = [version EXCEPT ![n] = Edited(request[p].latest, request[p].edit)]
             /\ current' = n
             /\ request' = [request EXCEPT ![p] = Idle]
             /\ UNCHANGED <<status, matched>>

\* What has a text, and a profile with all required keys.
Publishable(v) == v.text # "" /\ v.complete

\* A status that the request believes to be there already is not written.
SetStatus(p, s) == status' = IF request[p].status = s THEN status ELSE s

Activate(p) == /\ At(p, "commit") /\ request[p].op = "activate"
               /\ Publishable(request[p].latest)
               /\ SetStatus(p, "active")
               /\ request' = [request EXCEPT ![p] = Idle]
               /\ UNCHANGED <<current, version, matched>>

Deactivate(p) == /\ At(p, "commit") /\ request[p].op = "deactivate"
                 /\ SetStatus(p, "inactive")
                 /\ request' = [request EXCEPT ![p] = Idle]
                 /\ UNCHANGED <<current, version, matched>>

\* A conflict of version numbers, an incomplete version, or a request that dies.
Fail(p) == /\ ~ At(p, "idle")
           /\ request' = [request EXCEPT ![p] = Idle]
           /\ UNCHANGED <<status, current, version, matched>>

-----------------------------------------------------------------------------
Serve(p) == \/ \E edit \in Edits : ReadJob(p, "update", edit)
            \/ \E op \in {"activate", "deactivate", "match"} : ReadJob(p, op, NoEdit)
            \/ ReadVersions(p) \/ Match(p)
            \/ Update(p) \/ Activate(p) \/ Deactivate(p) \/ Fail(p)

Next == Create \/ \E p \in Requests : Serve(p)

Spec == Init /\ [][Next]_vars

-----------------------------------------------------------------------------
(* Properties                                                              *)

\* Every variable has its type.
TypeOK == /\ status \in {"none", "draft", "active", "inactive"}
          /\ current \in 0 .. MaxVersion
          /\ version \in [Numbers -> Versions \cup {Nothing}]
          /\ request \in [Requests -> [op : Operations, step : {"idle", "versions", "commit"},
                             edit : Edits, status : {"none", "draft", "active", "inactive"},
                             current : 0 .. MaxVersion, latest : Versions \cup {Nothing}]]
          /\ matched \in {Nothing} \cup [number : Numbers, content : Versions, read : Numbers]

\* "Later edits do not change historical results": a version, once there, never changes,
\* and its content is what every match of that number has seen.
VersionsAreImmutable ==
    [][\A n \in Numbers : version[n] # Nothing => version'[n] = version[n]]_vars

\* No edit is lost: a new version is the present one with what the request meant to change,
\* and nothing else, however many requests edit at once.
EditsBuildOnEachOther ==
    [][current' # current /\ current # 0 =>
          /\ current' = current + 1
          /\ \E p \in Requests :
                /\ request[p].op = "update"
                /\ version'[current'] = Edited(version[current], request[p].edit)]_vars

\* The history has no gaps, and ends with the current version.
HistoryIsGapless == \A n \in Numbers : version[n] # Nothing <=> n <= current

\* A match finds the version that was current when it read the job, whatever was committed
\* in between.
MatchesFindTheirVersion ==
    matched # Nothing => /\ matched.number = matched.read
                         /\ matched.content = version[matched.number]
=============================================================================
