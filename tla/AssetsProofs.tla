---------------------------- MODULE AssetsProofs ----------------------------
(***************************************************************************)
(* The safety of the release tool and of the launcher's asset phase, for   *)
(* any number of builds, faults and commands.  The release part of Inv     *)
(* follows the one entry a build has on the hub from the gates to the tag; *)
(* the launcher's part says what a command has compared by the time it     *)
(* reaches each step of its plan.                                          *)
(***************************************************************************)
EXTENDS Assets, FiniteSetTheorems, TLAPS

-----------------------------------------------------------------------------
(* The inductive invariant: the release. *)

PubSteps == {"idle", "gate", "create", "discard", "id", "delete", "retag", "undraft"}
PubResults == {"none", "rejected", "upload_failed", "no_id", "retag_failed", "hidden",
               "ok", "killed"}

ReleaseTypes ==
    /\ hub \subseteq Entries
    /\ pub \in [step : PubSteps, build : Build, old : 0..MaxBuild, result : PubResults]
    /\ flaw \in [Build -> Flaw]
    /\ faults \in 0..MaxFaults

\* A build has one entry, a visible one is under the final tag, and one at most is visible.
HubShape ==
    /\ \A e, f \in hub : e.build = f.build => e = f
    /\ \A e \in Visible : e.tag = "final"
    /\ \A e, f \in Visible : e = f

\* Nothing of a build is on the hub before its upload, and nothing with a flaw ever.
Uploads ==
    /\ \A e \in hub : e.build <= pub.build /\ flaw[e.build] = "none"
    /\ pub.step \in {"gate", "create"} => \A e \in hub : e.build # pub.build
    /\ pub.step \notin {"idle", "gate"} => flaw[pub.build] = "none"

\* Past the upload the build is complete, under the tag the step is about.
Follows ==
    /\ pub.step \in {"id", "delete", "retag", "undraft"} =>
         \A e \in hub : e.build = pub.build => e.complete
    /\ pub.step \in {"delete", "retag"} => Staging # {}
    /\ pub.step = "undraft" => Retagged # {}
    /\ \A e \in Visible : e.complete

\* The tag is left alone up to the deletion of the old release.
Untouched ==
    /\ pub.step \in {"gate", "create", "discard", "id"} => Current = pub.old
    /\ PublishOutcomeIsTrue

ReleaseInv == ReleaseTypes /\ HubShape /\ Uploads /\ Follows /\ Untouched

-----------------------------------------------------------------------------
(* The inductive invariant: the commands. *)

Names == {"native", "openshell", "update", "update_all"}
Subs == {"enter", "download", "verify", "place", "check", "redownload", "recheck"}
CmdType == [on : BOOLEAN, name : Names \cup {"none"}, step : Nat, sub : Subs,
            manifest : File, expect : 0..MaxBuild, drop : BOOLEAN, staged : File,
            used : [Parts -> File], result : {"none", "ok", "err", "killed"}]

\* The last step of each plan.
Last(name) == IF name = "native" THEN 4 ELSE IF name = "openshell" THEN 12
              ELSE IF name = "update" THEN 6 ELSE 9

CommandTypes ==
    /\ dir \in [Asset -> File] /\ bundle \in {"none", "some", "torn", "whole"}
    /\ installed \in File /\ commands \in Nat
    /\ cmd \in CmdType
    /\ cmd.on => cmd.name \in Names /\ cmd.step \in 1..Last(cmd.name) /\ cmd.result = "none"

\* A file is missing or the whole file the manifest in the directory records.
Agrees(a) == dir[a] = Whole(dir["sums"].build)
HasManifest == IsFile(dir["sums"]) /\ dir["sums"].build \in Build

\* What an OpenShell provision has verified so far, all against one manifest.
Verified ==
    cmd.on /\ cmd.name = "openshell" =>
        /\ cmd.sub \in {"redownload", "recheck"} =>
             HasManifest /\ cmd.expect = dir["sums"].build
        /\ cmd.step < 8 => cmd.sub \notin {"redownload", "recheck"}
        /\ cmd.step > 8 => HasManifest /\ Agrees("service")
        /\ cmd.step > 9 => Agrees("policy")
        /\ cmd.step > 10 => Agrees("image") \/ ~IsFile(dir["image"])
        /\ cmd.step > 11 => cmd.drop \/ Agrees("layout") \/ ~IsFile(dir["layout"])

\* What an update has compared, and what it is about to install.
Compared ==
    cmd.on /\ cmd.name \in Updates =>
        /\ cmd.step > Last(cmd.name) - 2 => HasManifest /\ Agrees("obs") /\ Agrees("service")
        /\ cmd.step = Last(cmd.name) => cmd.staged = dir["obs"]

CommandInv == CommandTypes /\ Verified /\ Compared /\ CommandsUseOneRelease

Inv == ReleaseInv /\ CommandInv

-----------------------------------------------------------------------------
(* The release. *)

\* The release under the tag is the one visible entry.
LEMMA CurrentIs == ASSUME NEW e, Visible = {e} PROVE Current = e.build
BY DEF Current

\* The launcher asks for a build that exists, or finds none.
LEMMA CurrentType == ReleaseTypes => Current \in 0..MaxBuild
<1> SUFFICES ASSUME ReleaseTypes PROVE Current \in 0..MaxBuild
  OBVIOUS
<1>1. CASE Visible = {}
  BY <1>1, ReleaseAssumption DEF Current
<1>2. CASE Visible # {}
  <2>1. (CHOOSE e \in Visible : TRUE) \in Visible
    BY <1>2
  <2> QED
    BY <1>2, <2>1, ReleaseAssumption DEF Current, Visible, ReleaseTypes, Entries, Build
<1> QED
  BY <1>1, <1>2

\* The fields of what publish uploads.
LEMMA EntryFields ==
    ASSUME NEW b \in Build, NEW tag \in {"staging", "final"}, NEW draft \in BOOLEAN,
           NEW complete \in BOOLEAN
    PROVE  /\ Entry(b, tag, draft, complete) \in Entries
           /\ Entry(b, tag, draft, complete).build = b
           /\ Entry(b, tag, draft, complete).tag = tag
           /\ Entry(b, tag, draft, complete).draft = draft
           /\ Entry(b, tag, draft, complete).complete = complete
BY DEF Entry, Entries

\* The end of a publish.
LEMMA OutcomeFields ==
    ASSUME ReleaseTypes, NEW r \in PubResults, Outcome(r)
    PROVE  /\ pub' \in [step : PubSteps, build : Build, old : 0..MaxBuild, result : PubResults]
           /\ pub'.step = "idle" /\ pub'.result = r
           /\ pub'.build = pub.build /\ pub'.old = pub.old
BY DEF ReleaseTypes, Outcome, PubSteps

\* The next call of a publish.
LEMMA GoFields ==
    ASSUME ReleaseTypes, NEW s \in PubSteps, pub' = [pub EXCEPT !.step = s]
    PROVE  /\ pub' \in [step : PubSteps, build : Build, old : 0..MaxBuild, result : PubResults]
           /\ pub'.step = s /\ pub'.result = pub.result
           /\ pub'.build = pub.build /\ pub'.old = pub.old
BY DEF ReleaseTypes

\* A fault stays within its bound.
LEMMA FaultType == ReleaseTypes /\ Fault => faults' \in 0..MaxFaults
BY ReleaseAssumption DEF ReleaseTypes, Fault

-----------------------------------------------------------------------------
(* One step of publish. *)

Replacement == Current' # Current => \E e \in hub : e.build = pub.build /\ e.complete

\* What every step keeps: while hub is not touched, neither is the tag.
LEMMA HubSame == hub' = hub => Visible' = Visible /\ Current' = Current
BY DEF Visible, Current

\* The gates decide on a new build; nothing of it is on the hub yet.
LEMMA GatesKeep ==
    ASSUME ReleaseInv, (\E b \in Build, f \in Flaw : Publish(b, f)) \/ Gate
    PROVE  ReleaseInv' /\ Replacement
<1> USE ReleaseAssumption DEF ReleaseInv
<1>1. CASE \E b \in Build, f \in Flaw : Publish(b, f)
  <2>1. PICK b \in Build, f \in Flaw : Publish(b, f)
    BY <1>1
  <2>2. /\ hub' = hub /\ Visible' = Visible /\ Current' = Current /\ faults' = faults
        /\ pub'.step = "gate" /\ pub'.build = b /\ pub'.old = Current /\ pub'.result = "none"
        /\ b = pub.build + 1 /\ pub.build \in Nat /\ pub.build \in Build /\ b \in Nat
    BY <2>1, HubSame DEF Publish, ReleaseTypes, Build
  <2>3. ReleaseTypes'
    BY <2>1, <2>2, CurrentType DEF ReleaseTypes, Publish, PubSteps, PubResults
  <2>4. \A x \in Build : x # b => flaw'[x] = flaw[x]
    BY <2>1 DEF Publish, ReleaseTypes
  <2>5. \A e \in hub : e.build \in Nat /\ e.build \in Build /\ e.build <= pub.build
    BY DEF ReleaseTypes, Entries, Build, Uploads
  <2>6. Uploads'
    BY <2>2, <2>4, <2>5 DEF Uploads
  <2>7. HubShape' /\ Follows'
    BY <2>2 DEF HubShape, Follows, Staging, Retagged
  <2>8. Untouched' /\ Replacement
    BY <2>2 DEF Untouched, PublishOutcomeIsTrue, Replacement
  <2> QED
    BY <2>3, <2>6, <2>7, <2>8
<1>2. CASE Gate
  <2>1. hub' = hub /\ Visible' = Visible /\ Current' = Current /\ faults' = faults
        /\ pub.step = "gate"
    BY <1>2, HubSame DEF Gate
  <2>2. CASE flaw[pub.build] \in Gates
    <3>1. Outcome("rejected") /\ flaw' = [flaw EXCEPT ![pub.build] = "none"]
      BY <1>2, <2>2 DEF Gate
    <3>2. /\ pub' \in [step : PubSteps, build : Build, old : 0..MaxBuild, result : PubResults]
          /\ pub'.step = "idle" /\ pub'.result = "rejected"
          /\ pub'.build = pub.build /\ pub'.old = pub.old
      BY <3>1, OutcomeFields DEF PubResults
    <3>3. ReleaseTypes'
      BY <2>1, <3>1, <3>2 DEF ReleaseTypes, Flaw
    <3>4. \A e \in hub : flaw'[e.build] = "none"
      BY <3>1 DEF Uploads, ReleaseTypes, Entries
    <3>5. HubShape' /\ Uploads' /\ Follows'
      BY <2>1, <3>2, <3>4 DEF HubShape, Uploads, Follows, Staging, Retagged
    <3>6. Untouched' /\ Replacement
      BY <2>1, <3>2 DEF Untouched, PublishOutcomeIsTrue, Replacement
    <3> QED
      BY <3>3, <3>5, <3>6
  <2>3. CASE flaw[pub.build] \notin Gates
    <3>1. pub' = [pub EXCEPT !.step = "create"] /\ flaw' = flaw
      BY <1>2, <2>3 DEF Gate
    <3>2. /\ pub' \in [step : PubSteps, build : Build, old : 0..MaxBuild, result : PubResults]
          /\ pub'.step = "create" /\ pub'.build = pub.build /\ pub'.old = pub.old
      BY <3>1, GoFields DEF PubSteps
    <3>3. flaw[pub.build] = "none"
      BY <2>3 DEF ReleaseTypes, Flaw
    <3>4. ReleaseTypes'
      BY <2>1, <3>1, <3>2 DEF ReleaseTypes
    <3>5. HubShape' /\ Uploads' /\ Follows'
      BY <2>1, <3>1, <3>2, <3>3 DEF HubShape, Uploads, Follows, Staging, Retagged
    <3>6. Untouched' /\ Replacement
      BY <2>1, <3>2 DEF Untouched, PublishOutcomeIsTrue, Replacement
    <3> QED
      BY <3>4, <3>5, <3>6
  <2> QED
    BY <2>2, <2>3
<1> QED
  BY <1>1, <1>2

\* An upload is a draft, so the tag is left alone; it is complete when publish goes on.
LEMMA CreateKeeps ==
    ASSUME ReleaseInv, Create \/ CreateFails
    PROVE  ReleaseInv' /\ Replacement
<1> USE ReleaseAssumption DEF ReleaseInv
<1>0. \A w \in BOOLEAN : Entry(pub.build, "staging", TRUE, w) \in Entries
  BY EntryFields DEF ReleaseTypes
<1>1. PICK whole \in BOOLEAN, new \in SUBSET Entries :
        /\ new \subseteq {Entry(pub.build, "staging", TRUE, whole)}
        /\ hub' = hub \cup new /\ flaw' = flaw /\ pub.step = "create"
        /\ \/ whole /\ new # {} /\ pub' = [pub EXCEPT !.step = "id"] /\ faults' = faults
           \/ pub' = [pub EXCEPT !.step = "discard"] /\ Fault
  <2>1. CASE Create
    <3>1. hub' = hub \cup {Entry(pub.build, "staging", TRUE, TRUE)}
      BY <2>1 DEF Create
    <3> QED
      BY <1>0, <2>1, <3>1 DEF Create
  <2>2. CASE CreateFails
    <3>1. PICK e \in {{}, {Entry(pub.build, "staging", TRUE, FALSE)}} : hub' = hub \cup e
      BY <2>2 DEF CreateFails
    <3> QED
      BY <1>0, <2>2, <3>1 DEF CreateFails
  <2> QED
    BY <2>1, <2>2
<1>2. /\ pub' \in [step : PubSteps, build : Build, old : 0..MaxBuild, result : PubResults]
      /\ pub'.step \in {"id", "discard"} /\ (pub'.step = "id" => whole)
      /\ pub'.build = pub.build /\ pub'.old = pub.old
  BY <1>1, GoFields DEF PubSteps
<1>3. \A e \in new : /\ e \in Entries /\ e.build = pub.build /\ e.tag = "staging"
                     /\ e.draft /\ e.complete = whole
  <2> DEFINE n == Entry(pub.build, "staging", TRUE, whole)
  <2>1. n \in Entries /\ n.build = pub.build /\ n.tag = "staging"
    BY <1>0 DEF Entry
  <2>2. n.draft /\ n.complete = whole
    BY DEF Entry
  <2>3. new \subseteq {n}
    BY <1>1
  <2> HIDE DEF n
  <2> QED
    BY <2>1, <2>2, <2>3
<1>4. Visible' = Visible
  BY <1>1, <1>3 DEF Visible
<1>5. Current' = Current
  BY <1>4 DEF Current
<1>6. faults' \in 0..MaxFaults
  BY <1>1, FaultType DEF ReleaseTypes
<1>7. ReleaseTypes'
  BY <1>1, <1>2, <1>3, <1>6 DEF ReleaseTypes
<1>8. \A e \in hub : e.build # pub.build
  BY <1>1 DEF Uploads
<1>9. \A e, f \in new : e = f
  BY <1>1
<1>10. HubShape'
  BY <1>1, <1>3, <1>4, <1>8, <1>9 DEF HubShape
<1>11. pub.build \in Nat
  BY DEF ReleaseTypes, Build
<1>12. Uploads'
  BY <1>1, <1>2, <1>3, <1>8, <1>11 DEF Uploads
<1>13. Follows'
  BY <1>1, <1>2, <1>3, <1>4, <1>8 DEF Follows
<1>14. Untouched' /\ Replacement
  BY <1>1, <1>2, <1>5 DEF Untouched, PublishOutcomeIsTrue, Replacement
<1> QED
  BY <1>7, <1>10, <1>12, <1>13, <1>14

\* The clean-up of a failed upload, and the search for the draft, leave the tag alone.
LEMMA DraftKeeps ==
    ASSUME ReleaseInv, Discard \/ Resolve
    PROVE  ReleaseInv' /\ Replacement
<1> USE ReleaseAssumption DEF ReleaseInv
<1>1. CASE Discard
  <2>1. /\ hub' \subseteq hub /\ hub \ hub' \subseteq Staging /\ pub.step = "discard"
        /\ flaw' = flaw /\ Outcome("upload_failed") /\ (faults' = faults \/ Fault)
    BY <1>1 DEF Discard, Staging
  <2>2. /\ pub' \in [step : PubSteps, build : Build, old : 0..MaxBuild, result : PubResults]
        /\ pub'.step = "idle" /\ pub'.result = "upload_failed"
        /\ pub'.build = pub.build /\ pub'.old = pub.old
    BY <2>1, OutcomeFields DEF PubResults
  <2>3. Visible' = Visible
    BY <2>1 DEF HubShape, Visible, Staging
  <2>4. Current' = Current
    BY <2>3 DEF Current
  <2>5. ReleaseTypes'
    BY <2>1, <2>2, FaultType DEF ReleaseTypes
  <2>6. HubShape' /\ Uploads' /\ Follows'
    BY <2>1, <2>2, <2>3 DEF HubShape, Uploads, Follows
  <2>7. Untouched' /\ Replacement
    BY <2>1, <2>2, <2>4 DEF Untouched, PublishOutcomeIsTrue, Replacement
  <2> QED
    BY <2>5, <2>6, <2>7
<1>2. CASE Resolve
  <2>1. /\ hub' = hub /\ Visible' = Visible /\ Current' = Current /\ flaw' = flaw
        /\ pub.step = "id" /\ (faults' = faults \/ Fault)
    BY <1>2, HubSame DEF Resolve
  <2>2. /\ pub' \in [step : PubSteps, build : Build, old : 0..MaxBuild, result : PubResults]
        /\ pub'.build = pub.build /\ pub'.old = pub.old
        /\ \/ pub'.step = "idle" /\ pub'.result = "no_id"
           \/ pub'.step = "delete" /\ Staging # {}
    <3>1. CASE Outcome("no_id")
      BY <3>1, OutcomeFields DEF PubResults
    <3>2. CASE Staging # {} /\ pub' = [pub EXCEPT !.step = "delete"]
      BY <3>2, GoFields DEF PubSteps
    <3> QED
      BY <1>2, <3>1, <3>2 DEF Resolve
  <2>3. ReleaseTypes'
    BY <2>1, <2>2, FaultType DEF ReleaseTypes
  <2>4. HubShape' /\ Uploads' /\ Follows'
    BY <2>1, <2>2 DEF HubShape, Uploads, Follows, Staging
  <2>5. Untouched' /\ Replacement
    BY <2>1, <2>2 DEF Untouched, PublishOutcomeIsTrue, Replacement
  <2> QED
    BY <2>3, <2>4, <2>5
<1> QED
  BY <1>1, <1>2

\* The old release is deleted while the draft of its successor is complete.
LEMMA DeleteKeeps ==
    ASSUME ReleaseInv, DeleteOld
    PROVE  ReleaseInv' /\ Replacement
<1> USE ReleaseAssumption DEF ReleaseInv
<1>1. /\ hub' \subseteq hub /\ pub.step = "delete" /\ flaw' = flaw
      /\ pub' = [pub EXCEPT !.step = "retag"] /\ (faults' = faults \/ Fault)
      /\ \A e \in hub \ hub' : e.tag = "final"
  BY DEF DeleteOld, HubShape, Visible
<1>2. /\ pub' \in [step : PubSteps, build : Build, old : 0..MaxBuild, result : PubResults]
      /\ pub'.step = "retag" /\ pub'.build = pub.build /\ pub'.old = pub.old
  BY <1>1, GoFields DEF PubSteps
<1>3. Staging' = Staging /\ Visible' \subseteq Visible
  BY <1>1, <1>2 DEF Staging, Visible
<1>4. ReleaseTypes'
  BY <1>1, <1>2, FaultType DEF ReleaseTypes
<1>5. HubShape' /\ Uploads' /\ Follows'
  BY <1>1, <1>2, <1>3 DEF HubShape, Uploads, Follows
<1>6. PICK e \in Staging : TRUE
  BY <1>1 DEF Follows
<1>7. e \in hub /\ e.build = pub.build /\ e.complete
  BY <1>1, <1>6 DEF Follows, Staging
<1>8. Untouched' /\ Replacement
  BY <1>2, <1>7 DEF Untouched, PublishOutcomeIsTrue, Replacement
<1> QED
  BY <1>4, <1>5, <1>8

\* The draft gets the final tag and stays hidden.
LEMMA RetagKeeps ==
    ASSUME ReleaseInv, Retag
    PROVE  ReleaseInv' /\ Replacement
<1> USE ReleaseAssumption DEF ReleaseInv
<1>1. pub.step = "retag" /\ flaw' = flaw /\ (faults' = faults \/ Fault)
  BY DEF Retag
<1>2. CASE Outcome("retag_failed") /\ hub' = hub
  <2>1. /\ pub' \in [step : PubSteps, build : Build, old : 0..MaxBuild, result : PubResults]
        /\ pub'.step = "idle" /\ pub'.result = "retag_failed"
        /\ pub'.build = pub.build /\ pub'.old = pub.old
    BY <1>2, OutcomeFields DEF PubResults
  <2>2. Visible' = Visible /\ Current' = Current
    BY <1>2, HubSame
  <2>3. ReleaseTypes'
    BY <1>1, <1>2, <2>1, FaultType DEF ReleaseTypes
  <2>4. HubShape' /\ Uploads' /\ Follows'
    BY <1>1, <1>2, <2>1, <2>2 DEF HubShape, Uploads, Follows
  <2>5. Untouched' /\ Replacement
    BY <2>1, <2>2 DEF Untouched, PublishOutcomeIsTrue, Replacement
  <2> QED
    BY <2>3, <2>4, <2>5
<1>3. CASE /\ hub' = (hub \ Staging) \cup {[e EXCEPT !.tag = "final"] : e \in Staging}
           /\ pub' = [pub EXCEPT !.step = "undraft"]
  <2>1. /\ pub' \in [step : PubSteps, build : Build, old : 0..MaxBuild, result : PubResults]
        /\ pub'.step = "undraft" /\ pub'.build = pub.build /\ pub'.old = pub.old
    BY <1>3, GoFields DEF PubSteps
  <2>2. PICK d \in Staging : TRUE
    BY <1>1 DEF Follows
  <2>3. /\ d \in hub /\ d \in Entries /\ d.build = pub.build /\ d.tag = "staging" /\ d.complete
        /\ d.draft
    BY <1>1, <2>2 DEF Staging, ReleaseTypes, Follows, HubShape, Visible, Entries
  <2>4. Staging = {d}
    BY <2>2, <2>3 DEF Staging, HubShape
  <2> DEFINE n == [d EXCEPT !.tag = "final"]
  <2>5. n \in Entries /\ n.build = pub.build /\ n.tag = "final" /\ n.complete /\ n.draft
    BY <2>3 DEF Entries
  <2>6. hub' = (hub \ {d}) \cup {n}
    BY <1>3, <2>4
  <2> HIDE DEF n
  <2>7. Visible' = Visible
    BY <2>3, <2>5, <2>6 DEF Visible
  <2>8. Current' = Current
    BY <2>7 DEF Current
  <2>9. ReleaseTypes'
    BY <1>1, <2>1, <2>5, <2>6, FaultType DEF ReleaseTypes
  <2>10. \A e \in hub' : e = n \/ (e \in hub /\ e.build # pub.build)
    BY <2>3, <2>6 DEF HubShape
  <2>11. HubShape'
    BY <2>5, <2>7, <2>10 DEF HubShape
  <2>12. pub.build \in Nat
    BY DEF ReleaseTypes, Build
  <2>13. Uploads'
    BY <1>1, <2>1, <2>5, <2>10, <2>12 DEF Uploads
  <2>14. Retagged' # {}
    BY <2>1, <2>5, <2>6 DEF Retagged
  <2>15. Follows'
    BY <2>1, <2>5, <2>7, <2>10, <2>14 DEF Follows
  <2>16. Untouched' /\ Replacement
    BY <2>1, <2>8 DEF Untouched, PublishOutcomeIsTrue, Replacement
  <2> QED
    BY <2>9, <2>11, <2>13, <2>15, <2>16
<1> QED
  BY <1>2, <1>3 DEF Retag

\* What becomes visible is the one complete entry of this build, where nothing else is.
LEMMA UndraftKeeps ==
    ASSUME ReleaseInv, Undraft
    PROVE  ReleaseInv' /\ Replacement
<1> USE ReleaseAssumption DEF ReleaseInv
<1>1. pub.step = "undraft" /\ flaw' = flaw /\ (faults' = faults \/ Fault)
  BY DEF Undraft
<1>2. CASE Outcome("hidden") /\ hub' = hub
  <2>1. /\ pub' \in [step : PubSteps, build : Build, old : 0..MaxBuild, result : PubResults]
        /\ pub'.step = "idle" /\ pub'.result = "hidden"
        /\ pub'.build = pub.build /\ pub'.old = pub.old
    BY <1>2, OutcomeFields DEF PubResults
  <2>2. Visible' = Visible /\ Current' = Current
    BY <1>2, HubSame
  <2>3. ReleaseTypes'
    BY <1>1, <1>2, <2>1, FaultType DEF ReleaseTypes
  <2>4. HubShape' /\ Uploads' /\ Follows'
    BY <1>1, <1>2, <2>1, <2>2 DEF HubShape, Uploads, Follows
  <2>5. Untouched' /\ Replacement
    BY <2>1, <2>2 DEF Untouched, PublishOutcomeIsTrue, Replacement
  <2> QED
    BY <2>3, <2>4, <2>5
<1>3. CASE /\ Visible = {} /\ Outcome("ok")
           /\ hub' = (hub \ Retagged) \cup {[e EXCEPT !.draft = FALSE] : e \in Retagged}
  <2>1. /\ pub' \in [step : PubSteps, build : Build, old : 0..MaxBuild, result : PubResults]
        /\ pub'.step = "idle" /\ pub'.result = "ok"
        /\ pub'.build = pub.build /\ pub'.old = pub.old
    BY <1>3, OutcomeFields DEF PubResults
  <2>2. PICK d \in Retagged : TRUE
    BY <1>1 DEF Follows
  <2>3. d \in hub /\ d \in Entries /\ d.build = pub.build /\ d.tag = "final" /\ d.complete
    BY <1>1, <2>2 DEF Retagged, ReleaseTypes, Follows
  <2>4. Retagged = {d}
    BY <2>2, <2>3 DEF Retagged, HubShape
  <2> DEFINE n == [d EXCEPT !.draft = FALSE]
  <2>5. n \in Entries /\ n.build = pub.build /\ n.tag = "final" /\ n.complete /\ ~n.draft
    BY <2>3 DEF Entries
  <2>6. hub' = (hub \ {d}) \cup {n}
    BY <1>3, <2>4
  <2> HIDE DEF n
  <2>7. Visible' = {n}
    BY <1>3, <2>5, <2>6 DEF Visible
  <2>8. Current' = pub.build
    BY <2>5, <2>7 DEF Current
  <2>9. ReleaseTypes'
    BY <1>1, <2>1, <2>5, <2>6, FaultType DEF ReleaseTypes
  <2>10. \A e \in hub' : e = n \/ (e \in hub /\ e.build # pub.build)
    BY <2>3, <2>6 DEF HubShape
  <2>11. HubShape'
    BY <2>5, <2>7, <2>10 DEF HubShape
  <2>12. pub.build \in Nat
    BY DEF ReleaseTypes, Build
  <2>13. Uploads'
    BY <1>1, <2>1, <2>5, <2>10, <2>12 DEF Uploads
  <2>14. Follows'
    BY <2>1, <2>5, <2>7 DEF Follows
  <2>15. Untouched' /\ Replacement
    BY <2>1, <2>3, <2>8 DEF Untouched, PublishOutcomeIsTrue, Replacement
  <2> QED
    BY <2>9, <2>11, <2>13, <2>14, <2>15
<1> QED
  BY <1>2, <1>3 DEF Undraft

\* Steps that leave the hub, the publish and the flaws alone.
LEMMA ReleaseIdle ==
    ASSUME ReleaseInv, hub' = hub, pub' = pub, flaw' = flaw, faults' \in 0..MaxFaults
    PROVE  ReleaseInv' /\ Replacement
<1>1. Visible' = Visible /\ Current' = Current
  BY HubSame
<1>2. ReleaseTypes'
  BY DEF ReleaseInv, ReleaseTypes
<1>3. HubShape' /\ Uploads' /\ Follows'
  BY <1>1 DEF ReleaseInv, HubShape, Uploads, Follows, Staging, Retagged
<1>4. Untouched' /\ Replacement
  BY <1>1 DEF ReleaseInv, Untouched, PublishOutcomeIsTrue, Replacement
<1> QED
  BY <1>2, <1>3, <1>4 DEF ReleaseInv

\* A killed publish leaves the hub as it is.
LEMMA KillKeeps ==
    ASSUME ReleaseInv, KillPublisher
    PROVE  ReleaseInv' /\ Replacement
<1> USE DEF ReleaseInv
<1>1. Visible' = Visible /\ Current' = Current /\ hub' = hub /\ flaw' = flaw
  BY HubSame DEF KillPublisher
<1>2. /\ pub' \in [step : PubSteps, build : Build, old : 0..MaxBuild, result : PubResults]
      /\ pub'.step = "idle" /\ pub'.result = "killed"
      /\ pub'.build = pub.build /\ pub'.old = pub.old
  BY OutcomeFields DEF PubResults, KillPublisher
<1>3. ReleaseTypes'
  BY <1>1, <1>2, FaultType DEF ReleaseTypes, KillPublisher
<1>4. HubShape' /\ Uploads' /\ Follows'
  BY <1>1, <1>2 DEF HubShape, Uploads, Follows
<1>5. Untouched' /\ Replacement
  BY <1>1, <1>2 DEF Untouched, PublishOutcomeIsTrue, Replacement
<1> QED
  BY <1>3, <1>4, <1>5

\* Every step of publish keeps its invariant, and replaces the tag only for an upload.
LEMMA PublisherKeeps == ReleaseInv /\ PublisherNext => ReleaseInv' /\ Replacement
BY GatesKeep, CreateKeeps, DraftKeeps, DeleteKeeps, RetagKeeps, UndraftKeeps, KillKeeps
   DEF PublisherNext

-----------------------------------------------------------------------------
(* Files, manifests and the record of a command. *)

\* Kinds of files.
LEMMA FileKinds ==
    /\ Missing \in File
    /\ \A b \in 0..MaxBuild : Whole(b) \in File /\ Torn(b) \in File
    /\ \A b \in 0..MaxBuild : Whole(b).build = b /\ Whole(b).whole
BY ReleaseAssumption DEF Missing, File, Whole, Torn

\* A transfer leaves a file behind, and costs a fault at most.
LEMMA TransferType ==
    ASSUME NEW old \in File, NEW b \in 0..MaxBuild, NEW t \in Transfers(old, b)
    PROVE  t.file \in File /\ t.fault \in {0, 1}
<1>1. Whole(b) \in File /\ Torn(b) \in File
  BY FileKinds
<1>2. CASE b = 0
  BY <1>2 DEF Transfers
<1>3. CASE b # 0
  <2>1. \/ t = [ok |-> TRUE, file |-> Whole(b), fault |-> 0]
        \/ t = [ok |-> FALSE, file |-> old, fault |-> 1]
        \/ t = [ok |-> FALSE, file |-> Torn(b), fault |-> 1]
        \/ t = [ok |-> TRUE, file |-> Torn(b), fault |-> 1]
    BY <1>3 DEF Transfers
  <2> QED
    BY <1>1, <2>1
<1> QED
  BY <1>2, <1>3

\* What a charge does to the bound on faults.
LEMMA ChargeType ==
    ASSUME ReleaseTypes, NEW t, t.fault \in {0, 1}, Charge(t)
    PROVE  faults' \in 0..MaxFaults
BY ReleaseAssumption DEF ReleaseTypes, Charge

\* The digest a manifest records for an asset is that of its own build, and a manifest
\* that is there is not fetched again.
LEMMA LookupType ==
    ASSUME ReleaseTypes, NEW m \in File, NEW x \in Lookup(m)
    PROVE  /\ x.file \in File /\ x.build \in 0..MaxBuild /\ x.fault \in {0, 1}
           /\ IsFile(m) => x.file = m
           /\ x.build # 0 => x.build = x.file.build /\ IsFile(x.file)
<1> DEFINE Sources == IF IsFile(m) THEN {[ok |-> TRUE, file |-> m, fault |-> 0]}
                      ELSE Transfers(Missing, Current)
           Builds(t) == IF t.ok THEN Recorded(t.file) ELSE {0}
<1>1. PICK t \in Sources : x \in {[file |-> t.file, build |-> b, fault |-> t.fault] : b \in Builds(t)}
  BY DEF Lookup
<1>2. PICK b \in Builds(t) : x = [file |-> t.file, build |-> b, fault |-> t.fault]
  BY <1>1
<1>3. t.file \in File /\ t.fault \in {0, 1} /\ (IsFile(m) => t.file = m)
  <2>1. CASE IsFile(m)
    BY <2>1, <1>1
  <2>2. CASE ~IsFile(m)
    BY <2>2, <1>1, CurrentType, TransferType, FileKinds
  <2> QED
    BY <2>1, <2>2
<1>4. b = 0 \/ b = t.file.build
  BY <1>2 DEF Recorded
<1>5. t.file.build \in 0..MaxBuild /\ 0 \in 0..MaxBuild
  BY <1>3, ReleaseAssumption DEF File
<1>6. b # 0 => IsFile(t.file)
  BY <1>4 DEF IsFile, Missing
<1>7. x.file = t.file /\ x.build = b /\ x.fault = t.fault
  BY <1>2
<1> QED
  BY <1>3, <1>4, <1>5, <1>6, <1>7

\* What the parts of a step do to the record of the command.
LEMMA NextStepFields ==
    ASSUME NEW c \in CmdType
    PROVE  /\ NextStep(c) \in CmdType /\ NextStep(c).on = c.on /\ NextStep(c).name = c.name
           /\ NextStep(c).step = c.step + 1 /\ NextStep(c).sub = "enter"
           /\ NextStep(c).drop = c.drop /\ NextStep(c).staged = c.staged
           /\ NextStep(c).used = c.used /\ NextStep(c).result = c.result
<1>1. c.step + 1 \in Nat /\ "enter" \in Subs
  BY DEF CmdType, Subs
<1>2. NextStep(c) = [c EXCEPT !.step = c.step + 1, !.sub = "enter"]
  BY DEF NextStep
<1> QED
  BY <1>1, <1>2 DEF CmdType

\* The fields of a command that ended.
LEMMA FinishFields ==
    ASSUME NEW c \in CmdType, NEW r \in {"ok", "err", "killed"}
    PROVE  /\ Finish(c, r) \in CmdType /\ ~Finish(c, r).on /\ Finish(c, r).name = c.name
           /\ Finish(c, r).used = c.used /\ Finish(c, r).result = r
<1>1. Done \in CmdType
  BY FileKinds, ReleaseAssumption DEF Done, CmdType, Subs, Nothing
<1> QED
  BY <1>1 DEF Finish, CmdType, Done

\* A command that goes on within its step keeps everything else.
LEMMA SubFields ==
    ASSUME NEW c \in CmdType, NEW s \in Subs
    PROVE  LET d == [c EXCEPT !.sub = s]
           IN  /\ d \in CmdType /\ d.on = c.on /\ d.name = c.name /\ d.step = c.step
               /\ d.sub = s /\ d.drop = c.drop /\ d.staged = c.staged /\ d.expect = c.expect
               /\ d.used = c.used /\ d.result = c.result
BY DEF CmdType

\* A command that keeps a manifest in memory changes nothing else.
LEMMA KeepFields ==
    ASSUME NEW c \in CmdType, NEW m \in File
    PROVE  /\ Keep(m, c) \in CmdType /\ Keep(m, c).on = c.on /\ Keep(m, c).name = c.name
           /\ Keep(m, c).step = c.step /\ Keep(m, c).sub = c.sub
           /\ Keep(m, c).drop = c.drop /\ Keep(m, c).staged = c.staged
           /\ Keep(m, c).used = c.used /\ Keep(m, c).result = c.result
BY DEF Keep, CmdType

\* A command that downloads a file again remembers the build it expects.
LEMMA ExpectFields ==
    ASSUME NEW c \in CmdType, NEW b \in 0..MaxBuild
    PROVE  LET d == [c EXCEPT !.sub = "redownload", !.expect = b]
           IN  /\ d \in CmdType /\ d.on = c.on /\ d.name = c.name /\ d.step = c.step
               /\ d.sub = "redownload" /\ d.expect = b /\ d.drop = c.drop
               /\ d.staged = c.staged /\ d.used = c.used /\ d.result = c.result
BY DEF CmdType, Subs

\* A command that gives up the layout changes nothing else.
LEMMA DropFields ==
    ASSUME NEW c \in CmdType
    PROVE  LET d == [c EXCEPT !.drop = TRUE]
           IN  /\ d \in CmdType /\ d.on = c.on /\ d.name = c.name /\ d.step = c.step
               /\ d.drop /\ d.staged = c.staged /\ d.used = c.used /\ d.result = c.result
BY DEF CmdType

\* A command that staged a file changes nothing else.
LEMMA StagedFields ==
    ASSUME NEW c \in CmdType, NEW f \in File
    PROVE  LET d == [c EXCEPT !.staged = f]
           IN  /\ d \in CmdType /\ d.on = c.on /\ d.name = c.name /\ d.step = c.step
               /\ d.drop = c.drop /\ d.staged = f /\ d.used = c.used /\ d.result = c.result
BY DEF CmdType

-----------------------------------------------------------------------------
(* The plans. *)

\* Where the steps of a native provision are in its plan.
LEMMA NativePlan ==
    ASSUME CommandTypes, NEW a, NEW b, NEW s, s = <<a, b>>, NEW sub, At("native", s, sub)
    PROVE  /\ cmd.on /\ cmd.name = "native" /\ cmd.sub = sub /\ cmd.step \in 1..4
           /\ s = <<"ensure", "service">> => cmd.step = 1
           /\ s = <<"policy", "first">> => cmd.step = 2
           /\ s = <<"policy", "again">> => cmd.step = 3
           /\ s = <<"use", "all">> => cmd.step = 4
<1>1. cmd.on /\ cmd.name = "native" /\ cmd.sub = sub /\ Plans["native"][cmd.step] = s
  BY DEF At
<1>2. cmd.step \in 1..4 /\ Last(cmd.name) = 4
  BY <1>1 DEF CommandTypes, Last
<1>3. ASSUME cmd.step = 1 PROVE a = "ensure" /\ b = "service"
  BY <1>1, <1>3 DEF Plans
<1>4. ASSUME cmd.step = 2 PROVE a = "policy" /\ b = "first"
  BY <1>1, <1>4 DEF Plans
<1>5. ASSUME cmd.step = 3 PROVE a = "policy" /\ b = "again"
  BY <1>1, <1>5 DEF Plans
<1>6. ASSUME cmd.step = 4 PROVE a = "use" /\ b = "all"
  BY <1>1, <1>6 DEF Plans
<1> QED
  BY <1>1, <1>2, <1>3, <1>4, <1>5, <1>6

\* Where the steps of an OpenShell provision are in its plan.
LEMMA OpenShellPlan ==
    ASSUME CommandTypes, NEW a, NEW b, NEW s, s = <<a, b>>, NEW sub, At("openshell", s, sub)
    PROVE  /\ cmd.on /\ cmd.name = "openshell" /\ cmd.sub = sub /\ cmd.step \in 1..12
           /\ s[1] \in {"bundle", "get", "ensure", "zot"} => cmd.step < 8
           /\ s = <<"verify", "service">> => cmd.step = 8
           /\ s = <<"verify", "policy">> => cmd.step = 9
           /\ s = <<"verify", "image">> => cmd.step = 10
           /\ s = <<"verify", "layout">> => cmd.step = 11
           /\ s = <<"use", "all">> => cmd.step = 12
<1>1. cmd.on /\ cmd.name = "openshell" /\ cmd.sub = sub /\ Plans["openshell"][cmd.step] = s
  BY DEF At
<1>2. cmd.step \in 1..12 /\ Last(cmd.name) = 12
  BY <1>1 DEF CommandTypes, Last
<1>3. ASSUME cmd.step = 1 PROVE a = "bundle" /\ b = "all"
  BY <1>1, <1>3 DEF Plans
<1>4. ASSUME cmd.step = 2 PROVE a = "get" /\ b = "service"
  BY <1>1, <1>4 DEF Plans
<1>5. ASSUME cmd.step = 3 PROVE a = "get" /\ b = "policy"
  BY <1>1, <1>5 DEF Plans
<1>6. ASSUME cmd.step = 4 PROVE a = "ensure" /\ b = "policy"
  BY <1>1, <1>6 DEF Plans
<1>7. ASSUME cmd.step = 5 PROVE a = "get" /\ b = "image"
  BY <1>1, <1>7 DEF Plans
<1>8. ASSUME cmd.step = 6 PROVE a = "get" /\ b = "layout"
  BY <1>1, <1>8 DEF Plans
<1>9. ASSUME cmd.step = 7 PROVE a = "zot" /\ b = "pin"
  BY <1>1, <1>9 DEF Plans
<1>10. ASSUME cmd.step = 8 PROVE a = "verify" /\ b = "service"
  BY <1>1, <1>10 DEF Plans
<1>11. ASSUME cmd.step = 9 PROVE a = "verify" /\ b = "policy"
  BY <1>1, <1>11 DEF Plans
<1>12. ASSUME cmd.step = 10 PROVE a = "verify" /\ b = "image"
  BY <1>1, <1>12 DEF Plans
<1>13. ASSUME cmd.step = 11 PROVE a = "verify" /\ b = "layout"
  BY <1>1, <1>13 DEF Plans
<1>14. ASSUME cmd.step = 12 PROVE a = "use" /\ b = "all"
  BY <1>1, <1>14 DEF Plans
<1> QED
  BY <1>1, <1>2, <1>3, <1>4, <1>5, <1>6, <1>7, <1>8, <1>9, <1>10, <1>11, <1>12, <1>13, <1>14

\* Where the steps of an update are in its plan ...
LEMMA UpdatePlan ==
    ASSUME CommandTypes, NEW a, NEW b, NEW s, s = <<a, b>>, NEW sub, At("update", s, sub)
    PROVE  /\ cmd.on /\ cmd.name = "update" /\ cmd.sub = sub /\ cmd.step \in 1..6
           /\ s[1] = "get" => cmd.step < Last(cmd.name) - 2
           /\ s[1] = "compare" => cmd.step = Last(cmd.name) - 2
           /\ s[1] = "stage" => cmd.step = Last(cmd.name) - 1
           /\ s[1] = "replace" => cmd.step = Last(cmd.name)
<1>1. cmd.on /\ cmd.name = "update" /\ cmd.sub = sub /\ Plans["update"][cmd.step] = s
  BY DEF At
<1>2. cmd.step \in 1..6 /\ Last(cmd.name) = 6
  BY <1>1 DEF CommandTypes, Last
<1>3. ASSUME cmd.step = 1 PROVE a = "get" /\ b = "obs"
  BY <1>1, <1>3 DEF Plans
<1>4. ASSUME cmd.step = 2 PROVE a = "get" /\ b = "service"
  BY <1>1, <1>4 DEF Plans
<1>5. ASSUME cmd.step = 3 PROVE a = "get" /\ b = "sums"
  BY <1>1, <1>5 DEF Plans
<1>6. ASSUME cmd.step = 4 PROVE a = "compare" /\ b = "all"
  BY <1>1, <1>6 DEF Plans
<1>7. ASSUME cmd.step = 5 PROVE a = "stage" /\ b = "obs"
  BY <1>1, <1>7 DEF Plans
<1>8. ASSUME cmd.step = 6 PROVE a = "replace" /\ b = "obs"
  BY <1>1, <1>8 DEF Plans
<1> QED
  BY <1>1, <1>2, <1>3, <1>4, <1>5, <1>6, <1>7, <1>8

\* ... and those of update --all.
LEMMA UpdateAllPlan ==
    ASSUME CommandTypes, NEW a, NEW b, NEW s, s = <<a, b>>, NEW sub, At("update_all", s, sub)
    PROVE  /\ cmd.on /\ cmd.name = "update_all" /\ cmd.sub = sub /\ cmd.step \in 1..9
           /\ s[1] = "get" => cmd.step < Last(cmd.name) - 2
           /\ s[1] = "compare" => cmd.step = Last(cmd.name) - 2
           /\ s[1] = "stage" => cmd.step = Last(cmd.name) - 1
           /\ s[1] = "replace" => cmd.step = Last(cmd.name)
<1>1. cmd.on /\ cmd.name = "update_all" /\ cmd.sub = sub /\ Plans["update_all"][cmd.step] = s
  BY DEF At
<1>2. cmd.step \in 1..9 /\ Last(cmd.name) = 9
  BY <1>1 DEF CommandTypes, Last
<1>3. ASSUME cmd.step = 1 PROVE a = "get" /\ b = "obs"
  BY <1>1, <1>3 DEF Plans
<1>4. ASSUME cmd.step = 2 PROVE a = "get" /\ b = "service"
  BY <1>1, <1>4 DEF Plans
<1>5. ASSUME cmd.step = 3 PROVE a = "get" /\ b = "sums"
  BY <1>1, <1>5 DEF Plans
<1>6. ASSUME cmd.step = 4 PROVE a = "get" /\ b = "policy"
  BY <1>1, <1>6 DEF Plans
<1>7. ASSUME cmd.step = 5 PROVE a = "get" /\ b = "image"
  BY <1>1, <1>7 DEF Plans
<1>8. ASSUME cmd.step = 6 PROVE a = "get" /\ b = "layout"
  BY <1>1, <1>8 DEF Plans
<1>9. ASSUME cmd.step = 7 PROVE a = "compare" /\ b = "all"
  BY <1>1, <1>9 DEF Plans
<1>10. ASSUME cmd.step = 8 PROVE a = "stage" /\ b = "obs"
  BY <1>1, <1>10 DEF Plans
<1>11. ASSUME cmd.step = 9 PROVE a = "replace" /\ b = "obs"
  BY <1>1, <1>11 DEF Plans
<1> QED
  BY <1>1, <1>2, <1>3, <1>4, <1>5, <1>6, <1>7, <1>8, <1>9, <1>10, <1>11

-----------------------------------------------------------------------------
(* What a step does to the command and to the directory. *)

Carries ==
    /\ cmd' \in CmdType /\ cmd'.on /\ cmd'.name = cmd.name /\ cmd'.used = cmd.used
    /\ cmd'.result = "none"
Advances == Carries /\ cmd'.step = cmd.step + 1 /\ cmd'.sub = "enter"
Waits(S) == Carries /\ cmd'.step = cmd.step /\ cmd'.sub \in S
Stops ==
    /\ cmd' \in CmdType /\ ~cmd'.on /\ cmd'.name = cmd.name /\ cmd'.used = cmd.used
    /\ cmd'.result \in {"err", "killed"}

Fetched == dir' \in [Asset -> File] /\ faults' \in 0..MaxFaults

Trying == {"download", "verify", "place", "check"}

\* A command goes to its next step, to another part of this one, or fails.
LEMMA Going ==
    ASSUME CommandTypes, cmd.on
    PROVE  /\ cmd' = NextStep(cmd) => Advances
           /\ \A s \in Subs : Sub(s) => Waits({s})
           /\ Fail => Stops
           /\ \A m \in File : cmd' = NextStep(Keep(m, cmd)) => Advances
<1>1. cmd \in CmdType /\ cmd.result = "none"
  BY DEF CommandTypes
<1>2. cmd' = NextStep(cmd) => Advances
  BY <1>1, NextStepFields DEF Advances, Carries
<1>3. ASSUME NEW s \in Subs, Sub(s) PROVE Waits({s})
  BY <1>1, <1>3, SubFields DEF Waits, Carries, Sub
<1>4. Fail => Stops
  BY <1>1, FinishFields DEF Fail, Stops
<1>5. ASSUME NEW m \in File, cmd' = NextStep(Keep(m, cmd)) PROVE Advances
  <2>1. Keep(m, cmd) \in CmdType
    BY <1>1, KeepFields
  <2> QED
    BY <1>1, <1>5, <2>1, NextStepFields, KeepFields DEF Advances, Carries
<1> QED
  BY <1>2, <1>3, <1>4, <1>5

\* ensure_verified_asset on a local copy.
LEMMA EnsureCase ==
    ASSUME ReleaseTypes, CommandTypes, cmd.on, NEW a \in Asset, EnsureLocal(a)
    PROVE  Fetched /\ (Advances \/ Waits(Trying))
<1>0. cmd \in CmdType /\ dir \in [Asset -> File] /\ cmd.manifest \in File /\ cmd.result = "none"
  BY DEF CommandTypes, CmdType
<1>1. CASE ~IsFile(dir[a])
  <2>1. Sub("download") /\ dir' = dir /\ faults' = faults
    BY <1>1 DEF EnsureLocal
  <2>2. Waits({"download"})
    BY <2>1, Going DEF Subs
  <2> QED
    BY <1>0, <2>1, <2>2 DEF Fetched, ReleaseTypes, Waits, Trying
<1>2. CASE IsFile(dir[a])
  <2>1. PICK m \in ManifestDigest :
          /\ Charge(m)
          /\ IF m.build = 0 \/ Matches(dir[a], m.build)
             THEN cmd' = NextStep(Keep(m.file, cmd)) /\ UNCHANGED dir
             ELSE /\ cmd' = Keep(m.file, [cmd EXCEPT !.sub = "download"])
                  /\ dir' = [dir EXCEPT ![a] = Missing]
    BY <1>2 DEF EnsureLocal
  <2>2. m.file \in File /\ m.fault \in {0, 1}
    BY <1>0, <2>1, LookupType DEF ManifestDigest
  <2>3. faults' \in 0..MaxFaults
    BY <2>1, <2>2, ChargeType
  <2>4. dir' \in [Asset -> File]
    BY <1>0, <2>1, FileKinds
  <2>5. CASE cmd' = NextStep(Keep(m.file, cmd))
    BY <2>2, <2>3, <2>4, <2>5, Going DEF Fetched
  <2>6. CASE cmd' = Keep(m.file, [cmd EXCEPT !.sub = "download"])
    <3> DEFINE d == [cmd EXCEPT !.sub = "download"]
    <3>1. /\ d \in CmdType /\ d.on = cmd.on /\ d.name = cmd.name /\ d.step = cmd.step
          /\ d.sub = "download" /\ d.used = cmd.used /\ d.result = cmd.result
      BY <1>0, SubFields DEF Subs
    <3>2. cmd' = Keep(m.file, d)
      BY <2>6
    <3> HIDE DEF d
    <3>3. Waits({"download"})
      BY <1>0, <2>2, <3>1, <3>2, KeepFields DEF Waits, Carries
    <3> QED
      BY <2>3, <2>4, <3>3 DEF Fetched, Waits, Trying
  <2> QED
    BY <2>1, <2>5, <2>6
<1> QED
  BY <1>1, <1>2

\* What follows a download.
LEMMA ContinueCase ==
    ASSUME CommandTypes, cmd.on, NEW c \in CmdType, NEW ok, NEW required,
           c.on = cmd.on, c.name = cmd.name, c.step = cmd.step, c.used = cmd.used,
           c.result = cmd.result, cmd' = Continue(c, ok, required)
    PROVE  Advances \/ Stops
<1>1. cmd.result = "none"
  BY DEF CommandTypes
<1>2. CASE cmd' = NextStep(c)
  BY <1>1, <1>2, NextStepFields DEF Advances, Carries
<1>3. CASE cmd' = Finish(c, "err")
  BY <1>3, FinishFields DEF Stops
<1> QED
  BY <1>2, <1>3 DEF Continue

\* download_openbox_asset, the transfer.
LEMMA DownloadCase ==
    ASSUME ReleaseTypes, CommandTypes, cmd.on, NEW a \in Asset, NEW required,
           Download(a, required)
    PROVE  Fetched /\ (Advances \/ Waits(Trying) \/ Stops)
<1>0. cmd \in CmdType /\ dir \in [Asset -> File] /\ cmd.result = "none"
  BY DEF CommandTypes
<1>1. PICK t \in Transfers(dir[a], Current) :
        /\ Charge(t) /\ dir' = [dir EXCEPT ![a] = t.file]
        /\ cmd' = IF t.ok THEN [cmd EXCEPT !.sub = "verify"]
                  ELSE Continue(cmd, FALSE, required)
  BY DEF Download
<1>2. t.file \in File /\ t.fault \in {0, 1}
  BY <1>0, <1>1, CurrentType, TransferType
<1>3. Fetched
  BY <1>0, <1>1, <1>2, ChargeType DEF Fetched
<1>4. CASE cmd' = [cmd EXCEPT !.sub = "verify"]
  <2>1. Waits({"verify"})
    BY <1>4, Going DEF Sub, Subs
  <2> QED
    BY <1>3, <2>1 DEF Waits, Trying
<1>5. CASE cmd' = Continue(cmd, FALSE, required)
  BY <1>0, <1>3, <1>5, ContinueCase
<1> QED
  BY <1>1, <1>4, <1>5

\* download_openbox_asset, the comparison with the manifest.
LEMMA VerifyCase ==
    ASSUME ReleaseTypes, CommandTypes, cmd.on, NEW a \in Asset, NEW required,
           Verify(a, required)
    PROVE  Fetched /\ (Advances \/ Stops)
<1>0. cmd \in CmdType /\ dir \in [Asset -> File] /\ cmd.manifest \in File
  BY DEF CommandTypes, CmdType
<1>1. PICK m \in ManifestDigest :
        /\ Charge(m)
        /\ cmd' = Continue(Keep(m.file, cmd), Matches(dir[a], m.build), required)
        /\ dir' = IF Matches(dir[a], m.build) THEN dir ELSE [dir EXCEPT ![a] = Missing]
  BY DEF Verify
<1>2. m.file \in File /\ m.fault \in {0, 1}
  BY <1>0, <1>1, LookupType DEF ManifestDigest
<1>3. Fetched
  BY <1>0, <1>1, <1>2, ChargeType, FileKinds DEF Fetched
<1>4. Advances \/ Stops
  BY <1>0, <1>1, <1>2, KeepFields, ContinueCase
<1> QED
  BY <1>3, <1>4

-----------------------------------------------------------------------------
(* The actions summed up. *)

\* What no command touches.
Apart == hub' = hub /\ pub' = pub /\ flaw' = flaw /\ faults' \in 0..MaxFaults
Keeps == Apart /\ installed' = installed /\ commands' = commands

Begins ==
    /\ Apart /\ installed' = installed /\ commands' = commands + 1
    /\ dir' = dir /\ bundle' = bundle
    /\ cmd' \in CmdType /\ cmd'.on /\ cmd'.name \in Names /\ cmd'.step = 1
    /\ cmd'.sub = "enter" /\ cmd'.result = "none"

NativeMoves ==
    /\ Keeps /\ bundle' = bundle /\ dir' \in [Asset -> File]
    /\ cmd.on /\ cmd.name = "native" /\ cmd' \in CmdType /\ cmd'.name = "native"
    /\ cmd'.on => cmd'.step \in 1..4 /\ cmd'.result = "none"

FetchMoves ==
    /\ Keeps /\ bundle' \in {"none", "some", "torn", "whole"} /\ dir' \in [Asset -> File]
    /\ cmd.on /\ cmd.name = "openshell" /\ cmd.step < 8
    /\ Advances \/ Waits(Trying) \/ Stops

Checked == {"service", "policy", "image", "layout"}
PlanStep(a) ==
    IF a = "service" THEN 8 ELSE IF a = "policy" THEN 9
    ELSE IF a = "image" THEN 10 ELSE 11

VerifyMoves(a) ==
    /\ Keeps /\ bundle' = bundle /\ dir' \in [Asset -> File]
    /\ cmd.on /\ cmd.name = "openshell" /\ cmd.step = PlanStep(a)
    /\ \A x \in Asset \ {a, "sums"} : dir'[x] = dir[x]
    /\ IsFile(dir["sums"]) => dir'["sums"] = dir["sums"]
    /\ \/ Stops
       \/ /\ a = "layout" /\ Advances /\ cmd'.drop
       \/ /\ Advances /\ cmd'.drop = cmd.drop /\ HasManifest'
          /\ dir'[a] = Whole(dir'["sums"].build)
       \/ /\ Advances /\ cmd'.drop = cmd.drop /\ a \in {"image", "layout"}
          /\ dir' = dir /\ ~IsFile(dir[a])
       \/ /\ Waits({"redownload"}) /\ cmd'.drop = cmd.drop /\ HasManifest'
          /\ cmd'.expect = dir'["sums"].build
       \/ /\ Waits({"recheck"}) /\ cmd.sub = "redownload" /\ cmd'.drop = cmd.drop
          /\ cmd'.expect = cmd.expect

UseMoves ==
    /\ Keeps /\ dir' = dir /\ bundle' = bundle
    /\ cmd.on /\ cmd.name = "openshell" /\ cmd.step = 12
    /\ \/ Stops
       \/ /\ cmd' \in CmdType /\ ~cmd'.on /\ cmd'.name = "openshell" /\ cmd'.result = "ok"
          /\ \A a \in Parts : cmd'.used[a] = IF a = "layout" /\ cmd.drop THEN Missing
                                             ELSE dir[a]

UpdateMoves ==
    /\ Apart /\ commands' = commands /\ bundle' = bundle /\ dir' \in [Asset -> File]
    /\ cmd.on /\ cmd.name \in Updates
    /\ \/ installed' = installed /\ Stops /\ dir' = dir
       \/ /\ installed' = installed /\ cmd.step < Last(cmd.name) - 2 /\ Advances
       \/ /\ installed' = installed /\ cmd.step = Last(cmd.name) - 2 /\ Advances /\ dir' = dir
          /\ HasManifest /\ Agrees("obs") /\ Agrees("service")
       \/ /\ installed' = installed /\ cmd.step = Last(cmd.name) - 1 /\ Advances /\ dir' = dir
          /\ cmd'.staged = dir["obs"]
       \/ /\ cmd.step = Last(cmd.name) /\ installed' = cmd.staged /\ dir' = dir
          /\ cmd' \in CmdType /\ ~cmd'.on /\ cmd'.name = cmd.name /\ cmd'.result = "ok"

KillMoves == Keeps /\ dir' = dir /\ bundle' = bundle /\ cmd.on /\ Stops

\* obs provision and obs update begin with a fresh record.
LEMMA StartCase ==
    ASSUME ReleaseTypes, CommandTypes, NEW name \in DOMAIN Plans, Start(name)
    PROVE  Begins
<1>1. name \in Names
  BY DEF Plans, Names
<1>2. Done \in CmdType
  BY FileKinds, ReleaseAssumption DEF Done, CmdType, Subs, Nothing
<1>3. cmd' = [Done EXCEPT !.on = TRUE, !.name = name]
  BY DEF Start
<1>4. /\ cmd' \in CmdType /\ cmd'.on /\ cmd'.name \in Names /\ cmd'.step = 1
      /\ cmd'.sub = "enter" /\ cmd'.result = "none"
  BY <1>1, <1>2, <1>3 DEF CmdType, Done
<1> QED
  BY <1>4 DEF Begins, Apart, Start, releaseVars, ReleaseTypes

\* The asset phase of a native provision.
LEMMA NativeCase ==
    ASSUME ReleaseTypes, CommandTypes, NativeService \/ NativePolicy
    PROVE  NativeMoves
<1>0. {"service", "policy"} \subseteq Asset
  BY DEF Asset
<1>1. /\ hub' = hub /\ pub' = pub /\ flaw' = flaw /\ installed' = installed
      /\ commands' = commands /\ bundle' = bundle
  BY DEF NativeService, NativePolicy
<1>2. CASE NativeService
  <2>1. cmd.on /\ cmd.name = "native" /\ cmd.step = 1
    BY <1>2, NativePlan DEF NativeService
  <2>2. Fetched /\ (Advances \/ Waits(Trying) \/ Stops)
    BY <1>0, <1>2, <2>1, EnsureCase, DownloadCase, VerifyCase DEF NativeService
  <2> QED
    BY <1>1, <2>1, <2>2
       DEF NativeMoves, Keeps, Apart, Fetched, Advances, Waits, Carries, Stops
<1>3. CASE /\ At("native", <<"policy", "first">>, "enter")
           /\ IF IsFile(dir["policy"])
              THEN cmd' = NextStep(NextStep(cmd)) ELSE Sub("download")
           /\ UNCHANGED <<dir, faults>>
  <2>1. cmd.on /\ cmd.name = "native" /\ cmd.step = 2
    BY <1>3, NativePlan
  <2>2. Fetched /\ cmd \in CmdType /\ cmd.result = "none"
    BY <1>3, <2>1 DEF Fetched, CommandTypes, ReleaseTypes
  <2>3. CASE cmd' = NextStep(NextStep(cmd))
    <3>1. NextStep(cmd) \in CmdType
      BY <2>2, NextStepFields
    <3>2. /\ cmd' \in CmdType /\ cmd'.on /\ cmd'.name = "native" /\ cmd'.step = 4
          /\ cmd'.result = "none"
      BY <2>1, <2>2, <2>3, <3>1, NextStepFields
    <3> QED
      BY <1>1, <2>1, <2>2, <3>2 DEF NativeMoves, Keeps, Apart, Fetched
  <2>4. CASE Sub("download")
    <3>1. Waits({"download"})
      BY <2>1, <2>4, Going DEF Subs
    <3> QED
      BY <1>1, <2>1, <2>2, <3>1 DEF NativeMoves, Keeps, Apart, Fetched, Waits, Carries
  <2> QED
    BY <1>3, <2>3, <2>4
<1>4. CASE /\ At("native", <<"policy", "again">>, "enter")
           /\ Sub("download") /\ UNCHANGED <<dir, faults>>
  <2>1. cmd.on /\ cmd.name = "native" /\ cmd.step = 3
    BY <1>4, NativePlan
  <2>2. Fetched
    BY <1>4 DEF Fetched, CommandTypes, ReleaseTypes
  <2>3. Waits({"download"})
    BY <1>4, <2>1, Going DEF Subs
  <2> QED
    BY <1>1, <2>1, <2>2, <2>3 DEF NativeMoves, Keeps, Apart, Fetched, Waits, Carries
<1>5. ASSUME NEW time \in {"first", "again"},
             \/ At("native", <<"policy", time>>, "download") /\ Download("policy", FALSE)
             \/ At("native", <<"policy", time>>, "verify") /\ Verify("policy", FALSE)
      PROVE  NativeMoves
  <2>1. cmd.on /\ cmd.name = "native" /\ cmd.step \in {2, 3}
    BY <1>5, NativePlan
  <2>2. Fetched /\ (Advances \/ Waits(Trying) \/ Stops)
    BY <1>0, <1>5, <2>1, DownloadCase, VerifyCase
  <2> QED
    BY <1>1, <2>1, <2>2
       DEF NativeMoves, Keeps, Apart, Fetched, Advances, Waits, Carries, Stops
<1> QED
  BY <1>2, <1>3, <1>4, <1>5 DEF NativePolicy

\* The paths are handed over, or there is no policy.
LEMMA NativeUseCase ==
    ASSUME ReleaseTypes, CommandTypes, NativeUse
    PROVE  NativeMoves
<1>1. /\ hub' = hub /\ pub' = pub /\ flaw' = flaw /\ installed' = installed
      /\ commands' = commands /\ bundle' = bundle /\ dir' = dir /\ faults' = faults
  BY DEF NativeUse, releaseVars
<1>2. cmd.on /\ cmd.name = "native" /\ cmd.step = 4 /\ cmd \in CmdType
  BY NativePlan DEF NativeUse, CommandTypes
<1> DEFINE d == [cmd EXCEPT !.used["service"] = dir["service"], !.used["policy"] = dir["policy"]]
<1>3. d \in CmdType /\ d.name = "native"
  <2>1. /\ cmd.used \in [Parts -> File] /\ "service" \in Parts /\ "policy" \in Parts
        /\ dir["service"] \in File /\ dir["policy"] \in File
    BY <1>2 DEF CmdType, Parts, CommandTypes, Asset
  <2>2. d = [cmd EXCEPT !.used = [cmd.used EXCEPT !["service"] = dir["service"],
                                                  !["policy"] = dir["policy"]]]
    BY <1>2 DEF CmdType
  <2>3. [cmd.used EXCEPT !["service"] = dir["service"], !["policy"] = dir["policy"]]
          \in [Parts -> File]
    BY <2>1
  <2> QED
    BY <1>2, <2>2, <2>3 DEF CmdType
<1>4. cmd' = Finish(d, "ok") \/ cmd' = Finish(cmd, "err")
  BY DEF NativeUse
<1> HIDE DEF d
<1>5. cmd' \in CmdType /\ ~cmd'.on /\ cmd'.name = "native"
  BY <1>2, <1>3, <1>4, FinishFields
<1> QED
  BY <1>1, <1>2, <1>5 DEF NativeMoves, Keeps, Apart, ReleaseTypes, CommandTypes

\* auto_fetch_bundle, ensure_release_assets and fetch_pinned_zot.
LEMMA FetchCase ==
    ASSUME ReleaseTypes, CommandTypes,
           FetchBundle \/ Place \/ FetchMissing \/ EnsurePolicy \/ FetchZot
    PROVE  FetchMoves
<1>0. Checked \subseteq Asset /\ "zot" \in Asset /\ "policy" \in Asset
  BY DEF Asset, Checked
<1>1. hub' = hub /\ pub' = pub /\ flaw' = flaw /\ installed' = installed /\ commands' = commands
  BY DEF FetchBundle, Place, FetchMissing, EnsurePolicy, FetchZot
<1>2. SUFFICES /\ Fetched /\ bundle' \in {"none", "some", "torn", "whole"}
               /\ cmd.on /\ cmd.name = "openshell" /\ cmd.step < 8
               /\ Advances \/ Waits(Trying) \/ Stops
  BY <1>1 DEF FetchMoves, Keeps, Apart, Fetched
<1>3. CASE FetchBundle
  <2>1. cmd.on /\ cmd.name = "openshell" /\ cmd.step < 8
    BY <1>3, OpenShellPlan DEF FetchBundle
  <2>2. Fetched /\ bundle' = bundle
    BY <1>3, FaultType DEF FetchBundle, Fetched, CommandTypes, ReleaseTypes
  <2>3. Advances \/ Waits({"place"}) \/ Stops
    BY <1>3, <2>1, Going DEF FetchBundle, Subs
  <2> QED
    BY <2>1, <2>2, <2>3 DEF Waits, Trying, CommandTypes
<1>4. CASE Place
  <2>1. cmd.on /\ cmd.name = "openshell" /\ cmd.step < 8
    BY <1>4, OpenShellPlan DEF Place
  <2>2. Fetched /\ bundle' \in {"none", "some", "torn", "whole"}
    BY <1>4, FaultType DEF Place, Fetched, CommandTypes, ReleaseTypes
  <2>3. Advances \/ Stops
    BY <1>4, <2>1, Going DEF Place
  <2> QED
    BY <2>1, <2>2, <2>3
<1>5. CASE FetchMissing
  <2>1. PICK a \in Checked :
          \/ /\ At("openshell", <<"get", a>>, "enter")
             /\ IF IsFile(dir[a]) THEN cmd' = NextStep(cmd) ELSE Sub("download")
             /\ UNCHANGED <<dir, faults>>
          \/ /\ At("openshell", <<"get", a>>, "download")
             /\ Download(a, a \in {"service", "policy"})
          \/ /\ At("openshell", <<"get", a>>, "verify")
             /\ Verify(a, a \in {"service", "policy"})
    BY <1>5 DEF FetchMissing, Checked
  <2>2. cmd.on /\ cmd.name = "openshell" /\ cmd.step < 8
    BY <2>1, OpenShellPlan
  <2>3. ASSUME IF IsFile(dir[a]) THEN cmd' = NextStep(cmd) ELSE Sub("download"),
               UNCHANGED <<dir, faults>>
        PROVE  Fetched /\ (Advances \/ Waits(Trying))
    <3>1. Advances \/ Waits({"download"})
      BY <2>2, <2>3, Going DEF Subs
    <3> QED
      BY <2>3, <3>1 DEF Fetched, CommandTypes, ReleaseTypes, Waits, Trying
  <2>4. Fetched /\ (Advances \/ Waits(Trying) \/ Stops)
    BY <1>0, <2>1, <2>2, <2>3, DownloadCase, VerifyCase DEF Fetched
  <2> QED
    BY <1>5, <2>2, <2>4 DEF FetchMissing, CommandTypes
<1>6. CASE EnsurePolicy
  <2>1. cmd.on /\ cmd.name = "openshell" /\ cmd.step < 8
    BY <1>6, OpenShellPlan DEF EnsurePolicy
  <2>2. Fetched /\ (Advances \/ Waits(Trying) \/ Stops)
    BY <1>0, <1>6, <2>1, EnsureCase, DownloadCase, VerifyCase DEF EnsurePolicy
  <2> QED
    BY <1>6, <2>1, <2>2 DEF EnsurePolicy, CommandTypes
<1>7. CASE FetchZot
  <2>1. cmd.on /\ cmd.name = "openshell" /\ cmd.step < 8
    BY <1>7, OpenShellPlan DEF FetchZot
  <2>2. bundle' \in {"none", "some", "torn", "whole"} /\ dir \in [Asset -> File]
        /\ faults \in 0..MaxFaults
    BY <1>7 DEF FetchZot, CommandTypes, ReleaseTypes
  <2>3. CASE cmd' = NextStep(cmd) /\ UNCHANGED <<dir, faults>>
    BY <2>1, <2>2, <2>3, Going DEF Fetched
  <2>4. ASSUME NEW t \in Transfers(Missing, 1), Charge(t),
               dir' = IF t.ok THEN [dir EXCEPT !["zot"] = t.file] ELSE dir,
               cmd' = IF t.ok THEN [cmd EXCEPT !.sub = "check"] ELSE NextStep(cmd)
        PROVE  Fetched /\ (Advances \/ Waits(Trying))
    <3>1. 1 \in 0..MaxBuild
      BY ReleaseAssumption
    <3>2. t.file \in File /\ t.fault \in {0, 1}
      BY <2>4, <3>1, TransferType, FileKinds
    <3>3. Fetched
      BY <1>0, <2>2, <2>4, <3>2, ChargeType DEF Fetched
    <3>4. Advances \/ Waits({"check"})
      BY <2>1, <2>4, Going DEF Sub, Subs
    <3> QED
      BY <3>3, <3>4 DEF Waits, Trying
  <2>5. CASE /\ dir' = IF dir["zot"].whole THEN dir ELSE [dir EXCEPT !["zot"] = Missing]
             /\ cmd' = NextStep(cmd) /\ UNCHANGED faults
    BY <1>0, <2>1, <2>2, <2>5, Going, FileKinds DEF Fetched
  <2> QED
    BY <1>7, <2>1, <2>2, <2>3, <2>4, <2>5 DEF FetchZot
<1> QED
  BY <1>3, <1>4, <1>5, <1>6, <1>7

\* Another part of the same step, as far as verify_provision_assets looks at it.
LEMMA RecheckNext ==
    ASSUME CommandTypes, cmd.on, cmd' = [cmd EXCEPT !.sub = "recheck"]
    PROVE  Waits({"recheck"}) /\ cmd'.drop = cmd.drop /\ cmd'.expect = cmd.expect
<1>1. cmd \in CmdType /\ cmd.result = "none" /\ "recheck" \in Subs
  BY DEF CommandTypes, Subs
<1> QED
  BY <1>1, SubFields DEF Waits, Carries

\* verify_asset refused.
LEMMA RefuseCase ==
    ASSUME CommandTypes, cmd.on, NEW a, cmd' = Refuse(a, cmd)
    PROVE  Stops \/ (a = "layout" /\ Advances /\ cmd'.drop)
<1>1. cmd \in CmdType /\ cmd.result = "none"
  BY DEF CommandTypes
<1>2. CASE a = "layout"
  <2> DEFINE d == [cmd EXCEPT !.drop = TRUE]
  <2>1. /\ d \in CmdType /\ d.on = cmd.on /\ d.name = cmd.name /\ d.step = cmd.step
        /\ d.drop /\ d.used = cmd.used /\ d.result = cmd.result
    BY <1>1, DropFields
  <2>2. cmd' = NextStep(d)
    BY <1>2 DEF Refuse
  <2> HIDE DEF d
  <2> QED
    BY <1>1, <1>2, <2>1, <2>2, NextStepFields DEF Advances, Carries
<1>3. CASE a # "layout"
  BY <1>1, <1>3, FinishFields DEF Refuse, Stops
<1> QED
  BY <1>2, <1>3

\* verify_provision_assets: an asset passes when it is the one of the manifest in the
\* directory, and the manifest is fetched once at most.
LEMMA VerifyAssetCase ==
    ASSUME ReleaseTypes, CommandTypes, Verified, VerifyProvisionAssets
    PROVE  \E a \in Checked : VerifyMoves(a)
<1>1. PICK a \in Checked :
        \/ At("openshell", <<"verify", a>>, "enter") /\ VerifyLocal(a)
        \/ At("openshell", <<"verify", a>>, "redownload") /\ Redownload(a)
        \/ At("openshell", <<"verify", a>>, "recheck") /\ Recheck(a)
  BY DEF VerifyProvisionAssets, Checked
<1>2. /\ hub' = hub /\ pub' = pub /\ flaw' = flaw /\ installed' = installed
      /\ commands' = commands /\ bundle' = bundle
  BY DEF VerifyProvisionAssets
<1>3. /\ cmd.on /\ cmd.name = "openshell" /\ cmd.step = PlanStep(a)
      /\ \/ cmd.sub = "enter" /\ VerifyLocal(a)
         \/ cmd.sub = "redownload" /\ Redownload(a)
         \/ cmd.sub = "recheck" /\ Recheck(a)
  BY <1>1, OpenShellPlan DEF PlanStep, Checked
<1>4. /\ a \in Asset /\ "sums" \in Asset /\ a # "sums"
      /\ dir \in [Asset -> File] /\ cmd \in CmdType /\ cmd.result = "none"
      /\ faults \in 0..MaxFaults
  BY <1>3 DEF Checked, Asset, CommandTypes, ReleaseTypes
<1> DEFINE Result ==
             \/ Stops
             \/ a = "layout" /\ Advances /\ cmd'.drop
             \/ /\ Advances /\ cmd'.drop = cmd.drop /\ HasManifest'
                /\ dir'[a] = Whole(dir'["sums"].build)
             \/ /\ Advances /\ cmd'.drop = cmd.drop /\ a \in {"image", "layout"}
                /\ dir' = dir /\ ~IsFile(dir[a])
             \/ /\ Waits({"redownload"}) /\ cmd'.drop = cmd.drop /\ HasManifest'
                /\ cmd'.expect = dir'["sums"].build
             \/ /\ Waits({"recheck"}) /\ cmd.sub = "redownload" /\ cmd'.drop = cmd.drop
                /\ cmd'.expect = cmd.expect
<1>5. SUFFICES /\ dir' \in [Asset -> File] /\ faults' \in 0..MaxFaults
               /\ \A x \in Asset \ {a, "sums"} : dir'[x] = dir[x]
               /\ IsFile(dir["sums"]) => dir'["sums"] = dir["sums"]
               /\ Result
  BY <1>2, <1>3 DEF VerifyMoves, Keeps, Apart
<1>6. ASSUME cmd' = NextStep(cmd) PROVE Advances /\ cmd'.drop = cmd.drop
  BY <1>3, <1>4, <1>6, Going, NextStepFields
<1>7. CASE VerifyLocal(a) /\ ~IsFile(dir[a])
  <2>1. dir' = dir /\ faults' = faults
    BY <1>7 DEF VerifyLocal
  <2>2. CASE a \in {"service", "policy"}
    BY <1>3, <1>4, <1>7, <2>1, <2>2, Going DEF VerifyLocal, Fail
  <2>3. CASE a \notin {"service", "policy"}
    BY <1>4, <1>6, <1>7, <2>1, <2>3 DEF VerifyLocal, Checked
  <2> QED
    BY <2>2, <2>3
<1>8. CASE VerifyLocal(a) /\ IsFile(dir[a])
  <2>1. PICK m \in PublishedChecksum :
           LET d == [dir EXCEPT !["sums"] = m.file]
           IN  /\ Charge(m)
               /\ IF m.build = 0 THEN cmd' = Refuse(a, cmd) /\ dir' = d
                  ELSE IF Matches(d[a], m.build) THEN cmd' = NextStep(cmd) /\ dir' = d
                  ELSE /\ cmd' = [cmd EXCEPT !.sub = "redownload", !.expect = m.build]
                       /\ dir' = [d EXCEPT ![a] = Missing]
    BY <1>8 DEF VerifyLocal
  <2>2. /\ m.file \in File /\ m.build \in 0..MaxBuild /\ m.fault \in {0, 1}
        /\ IsFile(dir["sums"]) => m.file = dir["sums"]
        /\ m.build # 0 => m.build = m.file.build /\ IsFile(m.file)
    BY <1>4, <2>1, LookupType DEF PublishedChecksum
  <2> DEFINE d == [dir EXCEPT !["sums"] = m.file]
  <2>3. /\ d \in [Asset -> File] /\ d["sums"] = m.file
        /\ \A x \in Asset \ {"sums"} : d[x] = dir[x]
    BY <1>4, <2>2
  <2>4. /\ Charge(m)
        /\ IF m.build = 0 THEN cmd' = Refuse(a, cmd) /\ dir' = d
           ELSE IF Matches(d[a], m.build) THEN cmd' = NextStep(cmd) /\ dir' = d
           ELSE /\ cmd' = [cmd EXCEPT !.sub = "redownload", !.expect = m.build]
                /\ dir' = [d EXCEPT ![a] = Missing]
    BY <2>1
  <2> HIDE DEF d
  <2>5. dir' = d \/ dir' = [d EXCEPT ![a] = Missing]
    BY <2>4
  <2>6. /\ dir' \in [Asset -> File] /\ dir'["sums"] = m.file
        /\ \A x \in Asset \ {a, "sums"} : dir'[x] = dir[x]
    BY <1>4, <2>3, <2>5, FileKinds
  <2>7. faults' \in 0..MaxFaults
    BY <2>2, <2>4, ChargeType
  <2>8. m.build # 0 => HasManifest' /\ dir'["sums"].build = m.build
    BY <2>2, <2>6, ReleaseAssumption DEF HasManifest, IsFile, Build
  <2>9. CASE m.build = 0
    <3>1. Result
      BY <1>3, <2>4, <2>9, RefuseCase
    <3> QED
      BY <2>2, <2>6, <2>7, <3>1
  <2>10. CASE m.build # 0 /\ Matches(d[a], m.build)
    <3>1. dir'[a] = Whole(dir'["sums"].build) /\ cmd' = NextStep(cmd)
      BY <2>4, <2>8, <2>10 DEF Matches
    <3>2. Result
      BY <1>6, <2>8, <2>10, <3>1
    <3> QED
      BY <2>2, <2>6, <2>7, <3>2
  <2>11. CASE m.build # 0 /\ ~Matches(d[a], m.build)
    <3>1. cmd' = [cmd EXCEPT !.sub = "redownload", !.expect = m.build]
      BY <2>4, <2>11
    <3>2. /\ cmd' \in CmdType /\ cmd'.on = cmd.on /\ cmd'.name = cmd.name
          /\ cmd'.step = cmd.step /\ cmd'.sub = "redownload" /\ cmd'.expect = m.build
          /\ cmd'.drop = cmd.drop /\ cmd'.used = cmd.used /\ cmd'.result = cmd.result
      BY <1>4, <2>2, <3>1, ExpectFields
    <3>3. Waits({"redownload"})
      BY <1>3, <1>4, <3>2 DEF Waits, Carries
    <3>4. Result
      BY <2>8, <2>11, <3>2, <3>3
    <3> QED
      BY <2>2, <2>6, <2>7, <3>4
  <2> QED
    BY <2>9, <2>10, <2>11
<1>9. CASE cmd.sub = "redownload" /\ Redownload(a)
  <2>1. PICK t \in Transfers(dir[a], Current) :
          /\ Charge(t) /\ dir' = [dir EXCEPT ![a] = t.file]
          /\ cmd' = IF t.ok THEN [cmd EXCEPT !.sub = "recheck"] ELSE Refuse(a, cmd)
    BY <1>9 DEF Redownload
  <2>2. t.file \in File /\ t.fault \in {0, 1}
    BY <1>4, <2>1, CurrentType, TransferType
  <2>3. /\ dir' \in [Asset -> File] /\ faults' \in 0..MaxFaults
        /\ \A x \in Asset \ {a} : dir'[x] = dir[x]
    BY <1>4, <2>1, <2>2, ChargeType
  <2>4. Result
    BY <1>3, <1>9, <2>1, RecheckNext, RefuseCase
  <2> QED
    BY <1>4, <2>3, <2>4
<1>10. CASE cmd.sub = "recheck" /\ Recheck(a)
  <2>1. /\ dir' \in [Asset -> File] /\ faults' \in 0..MaxFaults
        /\ \A x \in Asset \ {a} : dir'[x] = dir[x]
    BY <1>4, <1>10, FileKinds DEF Recheck
  <2>2. HasManifest /\ cmd.expect = dir["sums"].build
    BY <1>3, <1>10 DEF Verified
  <2>3. dir'["sums"] = dir["sums"]
    BY <1>4, <2>1
  <2>4. HasManifest'
    BY <2>2, <2>3 DEF HasManifest, IsFile
  <2>5. CASE Matches(dir[a], cmd.expect)
    <3>1. dir' = dir /\ cmd' = NextStep(cmd) /\ dir[a] = Whole(cmd.expect)
      BY <1>10, <2>5 DEF Recheck, Matches
    <3>2. Result
      BY <1>6, <2>2, <2>3, <2>4, <3>1
    <3> QED
      BY <2>1, <2>3, <3>2
  <2>6. CASE ~Matches(dir[a], cmd.expect)
    <3>1. Result
      BY <1>3, <1>10, <2>6, RefuseCase DEF Recheck
    <3> QED
      BY <2>1, <2>3, <3>1
  <2> QED
    BY <2>5, <2>6
<1> QED
  BY <1>3, <1>7, <1>8, <1>9, <1>10

\* The files and binaries are handed to the provision.
LEMMA UseCase ==
    ASSUME ReleaseTypes, CommandTypes, OpenShellUse
    PROVE  UseMoves
<1>1. /\ hub' = hub /\ pub' = pub /\ flaw' = flaw /\ installed' = installed
      /\ commands' = commands /\ bundle' = bundle /\ dir' = dir /\ faults' = faults
  BY DEF OpenShellUse, releaseVars
<1>2. /\ cmd.on /\ cmd.name = "openshell" /\ cmd.step = 12 /\ cmd \in CmdType
      /\ dir \in [Asset -> File]
  BY OpenShellPlan DEF OpenShellUse, CommandTypes
<1> DEFINE u == [a \in Parts |-> IF a = "layout" /\ cmd.drop THEN Missing ELSE dir[a]]
           d == [cmd EXCEPT !.used = u]
<1>3. u \in [Parts -> File]
  BY <1>2, FileKinds DEF Parts, Asset
<1>4. d \in CmdType /\ d.name = "openshell" /\ d.used = u
  BY <1>2, <1>3 DEF CmdType
<1>5. cmd' = Finish(d, "ok") \/ Fail
  BY DEF OpenShellUse
<1> HIDE DEF d
<1>6. CASE Fail
  <2>1. Stops
    BY <1>2, <1>6, Going
  <2> QED
    BY <1>1, <1>2, <2>1 DEF UseMoves, Keeps, Apart, ReleaseTypes
<1>7. CASE cmd' = Finish(d, "ok")
  <2>1. /\ cmd' \in CmdType /\ ~cmd'.on /\ cmd'.name = "openshell" /\ cmd'.result = "ok"
        /\ cmd'.used = u
    BY <1>4, <1>7, FinishFields
  <2> QED
    BY <1>1, <1>2, <2>1 DEF UseMoves, Keeps, Apart, ReleaseTypes
<1> QED
  BY <1>5, <1>6, <1>7

\* obs update: the files it compares are those of the manifest it downloaded.
LEMMA UpdateCase ==
    ASSUME ReleaseTypes, CommandTypes, UpdateGet \/ Compare \/ Stage \/ Replace
    PROVE  UpdateMoves
<1>0. hub' = hub /\ pub' = pub /\ flaw' = flaw /\ commands' = commands /\ bundle' = bundle
  BY DEF UpdateGet, Compare, Stage, Replace, releaseVars
<1>1. /\ dir \in [Asset -> File] /\ cmd \in CmdType /\ faults \in 0..MaxFaults
      /\ {"obs", "service", "sums"} \subseteq Asset
  BY DEF CommandTypes, ReleaseTypes, Asset
<1>2. CASE UpdateGet
  <2>1. PICK u \in Updates, a \in Asset :
          /\ At(u, <<"get", a>>, "enter")
          /\ \E t \in Transfers(dir[a], Current) :
               Charge(t) /\ dir' = [dir EXCEPT ![a] = t.file]
    BY <1>2 DEF UpdateGet
  <2>2. cmd.on /\ cmd.name \in Updates /\ cmd.step < Last(cmd.name) - 2
    BY <2>1, UpdatePlan, UpdateAllPlan DEF Updates
  <2>3. PICK t \in Transfers(dir[a], Current) : Charge(t) /\ dir' = [dir EXCEPT ![a] = t.file]
    BY <2>1
  <2>4. t.file \in File /\ t.fault \in {0, 1}
    BY <1>1, <2>3, CurrentType, TransferType
  <2>5. dir' \in [Asset -> File] /\ faults' \in 0..MaxFaults
    BY <1>1, <2>3, <2>4, ChargeType
  <2>6. Advances /\ installed' = installed
    BY <1>2, <2>2, Going DEF UpdateGet
  <2> QED
    BY <1>0, <2>2, <2>5, <2>6 DEF UpdateMoves, Apart
<1>3. CASE Compare
  <2>1. cmd.on /\ cmd.name \in Updates /\ cmd.step = Last(cmd.name) - 2
    BY <1>3, UpdatePlan, UpdateAllPlan DEF Updates, Compare
  <2>2. PICK b \in [{"obs", "service"} -> Recorded(dir["sums"])] :
          cmd' = IF \A a \in {"obs", "service"} : Matches(dir[a], b[a])
                 THEN NextStep(cmd) ELSE Finish(cmd, "err")
    BY <1>3 DEF Compare
  <2>3. dir' = dir /\ installed' = installed /\ faults' = faults
    BY <1>3 DEF Compare, releaseVars
  <2>4. CASE \A a \in {"obs", "service"} : Matches(dir[a], b[a])
    <3>1. Advances
      BY <2>1, <2>2, <2>4, Going
    <3>2. dir["sums"] \in File
      BY <1>1
    <3>3. ASSUME NEW a \in {"obs", "service"}
          PROVE  /\ dir["sums"].build # 0 /\ dir[a] = Whole(dir["sums"].build)
      <4>1. Matches(dir[a], b[a]) /\ b[a] \in Recorded(dir["sums"])
        BY <2>2, <2>4
      <4>2. b[a] # 0 /\ dir[a] = Whole(b[a]) /\ b[a] = dir["sums"].build
        BY <4>1 DEF Matches, Recorded
      <4> QED
        BY <4>2
    <3>4. HasManifest /\ Agrees("obs") /\ Agrees("service")
      BY <3>2, <3>3, ReleaseAssumption DEF HasManifest, Agrees, IsFile, Missing, File, Build
    <3> QED
      BY <1>0, <1>1, <2>1, <2>3, <3>1, <3>4 DEF UpdateMoves, Apart
  <2>5. CASE ~\A a \in {"obs", "service"} : Matches(dir[a], b[a])
    <3>1. Stops
      BY <2>1, <2>2, <2>5, Going DEF Fail
    <3> QED
      BY <1>0, <1>1, <2>1, <2>3, <3>1 DEF UpdateMoves, Apart
  <2> QED
    BY <2>4, <2>5
<1>4. CASE Stage
  <2>1. cmd.on /\ cmd.name \in Updates /\ cmd.step = Last(cmd.name) - 1 /\ cmd.result = "none"
    BY <1>4, UpdatePlan, UpdateAllPlan DEF Updates, Stage, CommandTypes
  <2>2. dir' = dir /\ installed' = installed /\ faults' \in 0..MaxFaults
    BY <1>1, <1>4, FaultType DEF Stage
  <2>3. CASE Fail
    <3>1. Stops
      BY <2>1, <2>3, Going
    <3> QED
      BY <1>0, <1>1, <2>1, <2>2, <3>1 DEF UpdateMoves, Apart
  <2>4. CASE cmd' = NextStep([cmd EXCEPT !.staged = dir["obs"]])
    <3> DEFINE d == [cmd EXCEPT !.staged = dir["obs"]]
    <3>1. /\ d \in CmdType /\ d.on = cmd.on /\ d.name = cmd.name /\ d.step = cmd.step
          /\ d.staged = dir["obs"] /\ d.used = cmd.used /\ d.result = cmd.result
      BY <1>1, StagedFields
    <3>2. cmd' = NextStep(d)
      BY <2>4
    <3> HIDE DEF d
    <3>3. Advances /\ cmd'.staged = dir["obs"]
      BY <2>1, <3>1, <3>2, NextStepFields DEF Advances, Carries
    <3> QED
      BY <1>0, <1>1, <2>1, <2>2, <3>3 DEF UpdateMoves, Apart
  <2> QED
    BY <1>4, <2>3, <2>4 DEF Stage
<1>5. CASE Replace
  <2>1. cmd.on /\ cmd.name \in Updates /\ cmd.step = Last(cmd.name)
    BY <1>5, UpdatePlan, UpdateAllPlan DEF Updates, Replace
  <2>2. dir' = dir /\ faults' \in 0..MaxFaults
    BY <1>1, <1>5, FaultType DEF Replace
  <2>3. CASE Fail /\ installed' = installed
    <3>1. Stops
      BY <2>1, <2>3, Going
    <3> QED
      BY <1>0, <1>1, <2>1, <2>2, <2>3, <3>1 DEF UpdateMoves, Apart
  <2>4. CASE installed' = cmd.staged /\ cmd' = Finish(cmd, "ok")
    <3>1. cmd' \in CmdType /\ ~cmd'.on /\ cmd'.name = cmd.name /\ cmd'.result = "ok"
      BY <1>1, <2>4, FinishFields
    <3> QED
      BY <1>0, <1>1, <2>1, <2>2, <2>4, <3>1 DEF UpdateMoves, Apart
  <2> QED
    BY <1>5, <2>3, <2>4 DEF Replace
<1> QED
  BY <1>2, <1>3, <1>4, <1>5

\* A command is interrupted.
LEMMA KillCase == ASSUME ReleaseTypes, CommandTypes, KillCommand PROVE KillMoves
<1>1. cmd \in CmdType
  BY DEF CommandTypes
<1>2. Stops
  BY <1>1, FinishFields DEF KillCommand, Stops
<1> QED
  BY <1>2, FaultType DEF KillCommand, KillMoves, Keeps, Apart

\* The steps of the commands are the ones summed up above.
LEMMA StepCases ==
    ASSUME ReleaseTypes, CommandTypes, Verified, Next
    PROVE  \/ PublisherNext /\ UNCHANGED assetVars
           \/ Begins \/ NativeMoves \/ FetchMoves \/ (\E a \in Checked : VerifyMoves(a))
           \/ UseMoves \/ UpdateMoves \/ KillMoves
BY StartCase, NativeCase, NativeUseCase, FetchCase, VerifyAssetCase, UseCase, UpdateCase,
   KillCase DEF Next

-----------------------------------------------------------------------------
(* One step of a command keeps its invariant. *)

\* The types, and that a command stays within its plan.
LEMMA CommandTypesStep ==
    ASSUME CommandTypes,
           \/ UNCHANGED assetVars
           \/ Begins \/ NativeMoves \/ FetchMoves \/ (\E a \in Checked : VerifyMoves(a))
           \/ UseMoves \/ UpdateMoves \/ KillMoves
    PROVE  CommandTypes'
<1> USE DEF CommandTypes
<1>1. CASE UNCHANGED assetVars
  BY <1>1 DEF assetVars
<1>2. CASE Begins
  BY <1>2 DEF Begins, Last, Names
<1>3. CASE NativeMoves
  BY <1>3 DEF NativeMoves, Keeps, Last, Names
<1>4. CASE FetchMoves
  BY <1>4 DEF FetchMoves, Keeps, Last, Names, Advances, Waits, Stops, Carries
<1>5. ASSUME NEW a \in Checked, VerifyMoves(a) PROVE CommandTypes'
  <2>1. cmd.step < 12 /\ cmd.name = "openshell"
    BY <1>5 DEF VerifyMoves, PlanStep
  <2>2. Advances \/ Waits(Subs) \/ Stops
    BY <1>5 DEF VerifyMoves, Waits, Subs
  <2> QED
    BY <1>5, <2>1, <2>2 DEF VerifyMoves, Keeps, Last, Names, Advances, Waits, Stops, Carries
<1>6. CASE UseMoves
  BY <1>6 DEF UseMoves, Keeps, Stops
<1>7. CASE UpdateMoves
  <2>1. cmd.staged \in File
    BY DEF CmdType
  <2> QED
    BY <1>7, <2>1 DEF UpdateMoves, Apart, Stops, Advances, Carries, Names, Updates, Last
<1>8. CASE KillMoves
  BY <1>8 DEF KillMoves, Keeps, Stops
<1> QED
  BY <1>1, <1>2, <1>3, <1>4, <1>5, <1>6, <1>7, <1>8

\* What an OpenShell provision verified stays what its manifest says.
LEMMA VerifiedStep ==
    ASSUME CommandTypes, Verified,
           \/ UNCHANGED assetVars
           \/ Begins \/ NativeMoves \/ FetchMoves \/ (\E a \in Checked : VerifyMoves(a))
           \/ UseMoves \/ UpdateMoves \/ KillMoves
    PROVE  Verified'
<1>1. CASE UNCHANGED assetVars
  BY <1>1 DEF assetVars, Verified, HasManifest, Agrees, IsFile
<1>2. CASE Begins
  BY <1>2 DEF Begins, Verified
<1>3. CASE NativeMoves
  BY <1>3 DEF NativeMoves, Verified
<1>4. CASE FetchMoves
  BY <1>4 DEF FetchMoves, Verified, Advances, Waits, Stops, Carries, Trying, CommandTypes, CmdType
<1>5. ASSUME NEW a \in Checked, VerifyMoves(a) PROVE Verified'
  <2>1. CASE Stops
    BY <2>1 DEF Stops, Verified
  <2>2. CASE ~Stops
    <3>0. /\ cmd.on /\ cmd.name = "openshell" /\ cmd.step = PlanStep(a) /\ cmd'.on
          /\ cmd'.name = "openshell" /\ (Advances \/ Waits({"redownload", "recheck"}))
      BY <1>5, <2>2 DEF VerifyMoves, Advances, Waits, Carries
    <3>1. /\ cmd.step > 8 => HasManifest /\ Agrees("service")
          /\ cmd.step > 9 => Agrees("policy")
          /\ cmd.step > 10 => Agrees("image") \/ ~IsFile(dir["image"])
          /\ cmd.sub \in {"redownload", "recheck"} =>
               HasManifest /\ cmd.expect = dir["sums"].build
      BY <3>0 DEF Verified
    <3>2. HasManifest => HasManifest' /\ dir'["sums"] = dir["sums"]
      BY <1>5 DEF VerifyMoves, HasManifest, IsFile
    <3>3. \A x \in Checked \ {a} : dir'[x] = dir[x]
      BY <1>5 DEF VerifyMoves, Checked, Asset
    <3>4. /\ cmd.step > 8 => HasManifest' /\ Agrees("service")'
          /\ cmd.step > 9 => Agrees("policy")'
          /\ cmd.step > 10 => Agrees("image")' \/ ~IsFile(dir'["image"])
      BY <3>0, <3>1, <3>2, <3>3 DEF PlanStep, Checked, Agrees, IsFile
    <3>5. CASE Advances /\ a = "layout" /\ cmd'.drop
      BY <3>0, <3>4, <3>5 DEF Advances, Verified, PlanStep, IsFile
    <3>6. CASE Advances /\ HasManifest' /\ Agrees(a)'
      BY <3>0, <3>4, <3>6 DEF Advances, Verified, PlanStep, Checked, IsFile
    <3>7. CASE Advances /\ a \in {"image", "layout"} /\ ~IsFile(dir'[a])
      BY <3>0, <3>4, <3>7 DEF Advances, Verified, PlanStep, IsFile
    <3>8. CASE Waits({"redownload"}) /\ HasManifest' /\ cmd'.expect = dir'["sums"].build
      BY <3>0, <3>4, <3>8 DEF Waits, Verified, PlanStep, IsFile
    <3>9. CASE Waits({"recheck"}) /\ cmd.sub = "redownload" /\ cmd'.expect = cmd.expect
      BY <3>0, <3>1, <3>2, <3>4, <3>9 DEF Waits, Verified, PlanStep, IsFile
    <3> QED
      BY <1>5, <2>2, <3>5, <3>6, <3>7, <3>8, <3>9 DEF VerifyMoves, Agrees, IsFile
  <2> QED
    BY <2>1, <2>2
<1>6. CASE UseMoves
  BY <1>6 DEF UseMoves, Stops, Verified
<1>7. CASE UpdateMoves
  BY <1>7 DEF UpdateMoves, Updates, Stops, Advances, Carries, Verified
<1>8. CASE KillMoves
  BY <1>8 DEF KillMoves, Stops, Verified
<1> QED
  BY <1>1, <1>2, <1>3, <1>4, <1>5, <1>6, <1>7, <1>8

\* What an update compared stays what it installs.
LEMMA ComparedStep ==
    ASSUME CommandTypes, Compared,
           \/ UNCHANGED assetVars
           \/ Begins \/ NativeMoves \/ FetchMoves \/ (\E a \in Checked : VerifyMoves(a))
           \/ UseMoves \/ UpdateMoves \/ KillMoves
    PROVE  Compared'
<1>1. CASE UNCHANGED assetVars
  BY <1>1 DEF assetVars, Compared, HasManifest, Agrees, IsFile, Last
<1>2. CASE Begins
  BY <1>2 DEF Begins, Compared, Last, Updates
<1>3. CASE NativeMoves
  BY <1>3 DEF NativeMoves, Compared, Updates
<1>4. CASE FetchMoves
  BY <1>4 DEF FetchMoves, Compared, Advances, Waits, Stops, Carries, Updates
<1>5. ASSUME NEW a \in Checked, VerifyMoves(a) PROVE Compared'
  BY <1>5 DEF VerifyMoves, Compared, Advances, Waits, Stops, Carries, Updates
<1>6. CASE UseMoves
  BY <1>6 DEF UseMoves, Stops, Compared
<1>7. CASE UpdateMoves
  <2>1. CASE ~cmd'.on
    BY <2>1 DEF Compared
  <2>2. CASE cmd'.on
    <3>1. Advances /\ cmd.on /\ cmd.name \in Updates /\ cmd'.name = cmd.name
      BY <1>7, <2>2 DEF UpdateMoves, Stops, Advances, Carries
    <3>2. cmd.step \in Nat /\ Last(cmd.name) \in Nat /\ cmd'.step = cmd.step + 1
      BY <3>1 DEF CommandTypes, CmdType, Last, Advances
    <3>3. CASE cmd.step < Last(cmd.name) - 2
      BY <3>1, <3>2, <3>3 DEF Compared, Last
    <3>4. CASE cmd.step = Last(cmd.name) - 2
      <4>1. dir' = dir /\ HasManifest /\ Agrees("obs") /\ Agrees("service")
        BY <1>7, <2>2, <3>1, <3>2, <3>4 DEF UpdateMoves, Stops
      <4> QED
        BY <3>1, <3>2, <3>4, <4>1 DEF Compared, HasManifest, Agrees, IsFile, Last
    <3>5. CASE cmd.step = Last(cmd.name) - 1
      <4>1. dir' = dir /\ cmd'.staged = dir["obs"]
        BY <1>7, <2>2, <3>1, <3>2, <3>5 DEF UpdateMoves, Stops
      <4>2. HasManifest /\ Agrees("obs") /\ Agrees("service")
        BY <3>1, <3>2, <3>5 DEF Compared
      <4> QED
        BY <3>1, <3>2, <3>5, <4>1, <4>2 DEF Compared, HasManifest, Agrees, IsFile, Last
    <3>6. cmd.step # Last(cmd.name)
      BY <1>7, <2>2, <3>2 DEF UpdateMoves, Stops
    <3> QED
      BY <1>7, <2>2, <3>2, <3>3, <3>4, <3>5, <3>6 DEF UpdateMoves, Stops
  <2> QED
    BY <2>1, <2>2
<1>8. CASE KillMoves
  BY <1>8 DEF KillMoves, Stops, Compared
<1> QED
  BY <1>1, <1>2, <1>3, <1>4, <1>5, <1>6, <1>7, <1>8

\* What a command installs or starts is of one release.
LEMMA OneReleaseStep ==
    ASSUME CommandTypes, Verified, Compared, CommandsUseOneRelease,
           \/ UNCHANGED assetVars
           \/ Begins \/ NativeMoves \/ FetchMoves \/ (\E a \in Checked : VerifyMoves(a))
           \/ UseMoves \/ UpdateMoves \/ KillMoves
    PROVE  CommandsUseOneRelease'
<1> USE DEF CommandsUseOneRelease
<1>1. CASE UNCHANGED assetVars
  BY <1>1 DEF assetVars, OpenShellUsesOneRelease, UpdateIsOneRelease, InstalledIsWhole
<1>2. ASSUME installed' = installed, cmd'.result # "ok" \/ cmd'.name = "native"
      PROVE  CommandsUseOneRelease'
  BY <1>2 DEF OpenShellUsesOneRelease, UpdateIsOneRelease, InstalledIsWhole, Updates
<1>3. CASE Begins \/ KillMoves
  BY <1>2, <1>3 DEF Begins, KillMoves, Keeps, Stops
<1>4. CASE NativeMoves
  BY <1>2, <1>4 DEF NativeMoves, Keeps
<1>5. CASE FetchMoves
  BY <1>2, <1>5 DEF FetchMoves, Keeps, Advances, Waits, Carries, Stops
<1>6. ASSUME NEW a \in Checked, VerifyMoves(a) PROVE CommandsUseOneRelease'
  BY <1>2, <1>6 DEF VerifyMoves, Keeps, Advances, Waits, Carries, Stops
<1>7. CASE UseMoves
  <2>1. CASE Stops
    BY <1>2, <1>7, <2>1 DEF UseMoves, Keeps, Stops
  <2>2. CASE ~Stops
    <3> DEFINE b == dir["sums"].build
    <3>1. /\ cmd'.name = "openshell" /\ installed' = installed /\ cmd.on
          /\ cmd.name = "openshell" /\ cmd.step = 12
          /\ \A a \in Parts : cmd'.used[a] = IF a = "layout" /\ cmd.drop THEN Missing
                                             ELSE dir[a]
      BY <1>7, <2>2 DEF UseMoves, Keeps
    <3>2. /\ b \in Build /\ dir["service"] = Whole(b) /\ dir["policy"] = Whole(b)
          /\ dir["image"] \in {Missing, Whole(b)}
          /\ cmd.drop \/ dir["layout"] \in {Missing, Whole(b)}
      BY <3>1 DEF Verified, HasManifest, Agrees, IsFile
    <3> HIDE DEF b
    <3>3. /\ cmd'.used["service"] = Whole(b) /\ cmd'.used["policy"] = Whole(b)
          /\ \A a \in {"image", "layout"} : cmd'.used[a] \in {Missing, Whole(b)}
      BY <3>1, <3>2 DEF Parts
    <3>4. OpenShellUsesOneRelease'
      BY <3>2, <3>3 DEF OpenShellUsesOneRelease
    <3> QED
      BY <3>1, <3>4 DEF UpdateIsOneRelease, InstalledIsWhole, Updates
  <2> QED
    BY <2>1, <2>2
<1>8. CASE UpdateMoves
  <2>1. CASE Stops \/ Advances
    <3>1. installed' = installed
      BY <1>8, <2>1 DEF UpdateMoves, Stops, Advances, Carries
    <3> QED
      BY <1>2, <2>1, <3>1 DEF Stops, Advances, Carries
  <2>2. CASE ~(Stops \/ Advances)
    <3> DEFINE b == dir["sums"].build
    <3>1. /\ cmd.on /\ cmd.name \in Updates /\ cmd.step = Last(cmd.name)
          /\ installed' = cmd.staged /\ dir' = dir /\ cmd'.name = cmd.name
      BY <1>8, <2>2 DEF UpdateMoves
    <3>2. cmd.step > Last(cmd.name) - 2
      BY <3>1 DEF Last
    <3>3. b \in Build /\ dir["obs"] = Whole(b) /\ dir["service"] = Whole(b)
          /\ cmd.staged = dir["obs"]
      BY <3>1, <3>2 DEF Compared, HasManifest, Agrees
    <3>4. installed' = Whole(b) /\ dir'["service"] = Whole(b) /\ b \in Build
      BY <3>1, <3>3
    <3>5. UpdateIsOneRelease' /\ InstalledIsWhole'
      BY <3>4 DEF UpdateIsOneRelease, InstalledIsWhole, Whole
    <3> QED
      BY <3>1, <3>5 DEF OpenShellUsesOneRelease, Updates
  <2> QED
    BY <2>1, <2>2
<1> QED
  BY <1>1, <1>3, <1>4, <1>5, <1>6, <1>7, <1>8

-----------------------------------------------------------------------------
(* The theorems. *)

\* The inductive invariant holds of the initial states ...
LEMMA InvInit == Init => Inv
<1> SUFFICES ASSUME Init PROVE Inv
  OBVIOUS
<1> USE ReleaseAssumption DEF Init, ReleaseInit
<1> DEFINE n == Entry(1, "final", FALSE, TRUE)
<1>1. 1 \in Build /\ 1 \in 0..MaxBuild /\ 0 \in 0..MaxFaults
  BY DEF Build
<1>2. n \in Entries /\ n.build = 1 /\ n.tag = "final" /\ ~n.draft /\ n.complete
  BY <1>1 DEF Entry, Entries
<1>3. hub = {n}
  OBVIOUS
<1> HIDE DEF n
<1>4. Visible = {n}
  BY <1>2, <1>3 DEF Visible
<1>5. pub.step = "idle" /\ pub.build = 1 /\ pub.result = "none"
  BY DEF Quiet
<1>6. ReleaseTypes
  BY <1>1, <1>2, <1>3 DEF ReleaseTypes, Quiet, PubSteps, PubResults, Flaw
<1>7. flaw[1] = "none"
  BY <1>1
<1>8. HubShape /\ Uploads /\ Follows
  <2>1. HubShape
    BY <1>2, <1>3, <1>4 DEF HubShape
  <2>2. Uploads
    <3>1. \A e \in hub : e.build = 1
      BY <1>2, <1>3
    <3>2. ASSUME NEW e \in hub PROVE e.build <= pub.build /\ flaw[e.build] = "none"
      <4>1. e.build = 1
        BY <3>1
      <4>2. 1 <= pub.build
        BY DEF Quiet
      <4> QED
        BY <1>7, <4>1, <4>2
    <3> QED
      BY <1>5, <3>2 DEF Uploads
  <2>3. Follows
    BY <1>2, <1>4, <1>5 DEF Follows
  <2> QED
    BY <2>1, <2>2, <2>3
<1>9. Untouched
  BY <1>5 DEF Untouched, PublishOutcomeIsTrue
<1>10. Done \in CmdType /\ ~Done.on /\ Done.result = "none"
  BY FileKinds, ReleaseAssumption DEF Done, CmdType, Subs, Nothing
<1>11. Whole(1) \in File /\ Whole(1).whole
  BY <1>1, FileKinds
<1>12. CommandTypes
  BY <1>10, <1>11, FileKinds DEF CommandTypes
<1>13. Verified /\ Compared /\ CommandsUseOneRelease
  BY <1>10, <1>11 DEF Verified, Compared, CommandsUseOneRelease, OpenShellUsesOneRelease,
     UpdateIsOneRelease, InstalledIsWhole
<1> QED
  BY <1>6, <1>8, <1>9, <1>12, <1>13 DEF Inv, ReleaseInv, CommandInv

\* ... every step of the tool and of the launcher keeps it, and replaces the release
\* under the tag only for a complete upload.
LEMMA InvStep == Inv /\ [Next]_vars => Inv' /\ (Replacement \/ UNCHANGED vars)
<1> SUFFICES ASSUME Inv, [Next]_vars PROVE Inv' /\ (Replacement \/ UNCHANGED vars)
  OBVIOUS
<1> USE DEF Inv
<1>1. ReleaseTypes /\ CommandTypes /\ Verified /\ Compared /\ CommandsUseOneRelease
  BY DEF ReleaseInv, CommandInv
<1>2. CASE UNCHANGED vars
  <2>1. hub' = hub /\ pub' = pub /\ flaw' = flaw /\ faults' = faults /\ UNCHANGED assetVars
    BY <1>2 DEF vars, releaseVars
  <2>2. ReleaseInv'
    BY <1>1, <2>1, ReleaseIdle DEF ReleaseTypes
  <2>3. CommandInv'
    BY <1>1, <2>1, CommandTypesStep, VerifiedStep, ComparedStep, OneReleaseStep DEF CommandInv
  <2> QED
    BY <1>2, <2>2, <2>3
<1>3. CASE Next
  <2>1. \/ PublisherNext /\ UNCHANGED assetVars
        \/ Begins \/ NativeMoves \/ FetchMoves \/ (\E a \in Checked : VerifyMoves(a))
        \/ UseMoves \/ UpdateMoves \/ KillMoves
    BY <1>1, <1>3, StepCases
  <2>2. CommandInv'
    BY <1>1, <2>1, CommandTypesStep, VerifiedStep, ComparedStep, OneReleaseStep DEF CommandInv
  <2>3. CASE PublisherNext
    BY <2>2, <2>3, PublisherKeeps
  <2>4. CASE ~(PublisherNext /\ UNCHANGED assetVars)
    <3>1. Apart
      BY <2>1, <2>4
         DEF Begins, NativeMoves, FetchMoves, VerifyMoves, UseMoves, UpdateMoves, KillMoves, Keeps
    <3>2. ReleaseInv' /\ Replacement
      BY <3>1, ReleaseIdle DEF Apart
    <3> QED
      BY <2>2, <3>2
  <2> QED
    BY <2>3, <2>4
<1> QED
  BY <1>2, <1>3

\* Every behaviour of the release tool and of the launcher keeps the inductive invariant.
THEOREM Invariance == Spec => []Inv
<1>1. Inv /\ [Next]_vars => Inv'
  BY InvStep
<1> QED
  BY <1>1, InvInit, PTL DEF Spec

\* The inductive invariant contains the properties; one entry at most is visible.
LEMMA InvImplies == Inv => TypeOK /\ PublishIsSound /\ CommandsUseOneRelease
<1> SUFFICES ASSUME Inv PROVE TypeOK /\ PublishIsSound /\ CommandsUseOneRelease
  OBVIOUS
<1>1. ReleaseInv /\ CommandInv
  BY DEF Inv
<1>2. Cardinality(Visible) <= 1
  <2>1. CASE Visible = {}
    BY <2>1, FS_EmptySet
  <2>2. CASE Visible # {}
    <3>1. PICK e \in Visible : Visible = {e}
      BY <1>1, <2>2 DEF ReleaseInv, HubShape
    <3>2. Cardinality({e}) = 1
      BY FS_Singleton
    <3> QED
      BY <3>1, <3>2
  <2> QED
    BY <2>1, <2>2
<1>3. cmd.on => cmd.step \in DOMAIN Plans[cmd.name]
  <2> SUFFICES ASSUME cmd.on PROVE cmd.step \in DOMAIN Plans[cmd.name]
    OBVIOUS
  <2>1. cmd.name \in Names /\ cmd.step \in 1..Last(cmd.name)
    BY <1>1 DEF CommandInv, CommandTypes
  <2>2. CASE cmd.name = "native"
    BY <2>1, <2>2 DEF Last, Plans
  <2>3. CASE cmd.name = "openshell"
    BY <2>1, <2>3 DEF Last, Plans
  <2>4. CASE cmd.name = "update"
    BY <2>1, <2>4 DEF Last, Plans
  <2>5. CASE cmd.name = "update_all"
    BY <2>1, <2>5 DEF Last, Plans
  <2> QED
    BY <2>1, <2>2, <2>3, <2>4, <2>5 DEF Names
<1>4. TypeOK
  BY <1>1, <1>2, <1>3
     DEF TypeOK, ReleaseInv, ReleaseTypes, CommandInv, CommandTypes, CmdType
<1>5. \A e \in Visible : e \in hub
  BY DEF Visible
<1>6. PublishIsSound
  BY <1>1, <1>5
     DEF ReleaseInv, PublishIsSound, PublishedIsWhole, Untouched, Uploads, Follows
<1> QED
  BY <1>1, <1>4, <1>6 DEF CommandInv

\* The state has its types, and one release at most is visible under the tag
\* (packaging/release, packaging/launcher).
THEOREM TypeCorrect == Spec => []TypeOK
BY Invariance, InvImplies, PTL

\* publish: what is visible passed every gate and carries every file, an "ok" means that
\* the build is under the tag, and a publish that failed early left the tag alone.
THEOREM PublishStaysSound == Spec => []PublishIsSound
BY Invariance, InvImplies, PTL

\* obs provision for OpenShell and obs update take whole files of one single release,
\* whatever is published, breaks off or is killed meanwhile.  The registry binary, which is
\* not of the release, is left out, and so is a host that goes down.
THEOREM CommandsStayWithOneRelease == Spec => []CommandsUseOneRelease
BY Invariance, InvImplies, PTL

\* publish changes what the tag serves only once a complete upload of the successor is on
\* the hub.
THEOREM ReleaseReplacedByUpload == Spec => ReplacedOnlyByUpload
<1>1. Inv /\ [Next]_vars =>
        [Current' # Current => \E e \in hub : e.build = pub.build /\ e.complete]_vars
  BY InvStep DEF Replacement
<1> QED
  BY <1>1, Invariance, PTL DEF Spec, ReplacedOnlyByUpload

=============================================================================
