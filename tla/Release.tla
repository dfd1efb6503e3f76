------------------------------- MODULE Release ------------------------------
(***************************************************************************)
(* obs-release publish <dir> [tag] (packaging/release/src): the gates a    *)
(* release directory passes, then the replacement of the release under a   *)
(* tag of GitHub by way of a staging draft.  A build is the directory one  *)
(* publish was given.  The hub holds releases and drafts; every call of    *)
(* the gh tool may fail, and the tool may be killed between two calls.     *)
(***************************************************************************)
EXTENDS Naturals, FiniteSets, Sequences

CONSTANTS MaxBuild,    \* builds are 1..MaxBuild
          MaxFaults    \* bound on failed calls, failed transfers and kills

ASSUME ReleaseAssumption == MaxBuild \in Nat \ {0} /\ MaxFaults \in Nat

VARIABLES
    hub,        \* the releases and drafts of the repository on GitHub
    pub,        \* the publish in progress, or the outcome of the last one
    flaw,       \* what is wrong with the directory of a build
    faults

releaseVars == <<hub, pub, flaw, faults>>

Build == 1..MaxBuild

\* What the gates of publish reject.
Gates == {"credential", "unlisted", "builder_path", "digest"}
Flaw == {"none"} \cup Gates

Entry(b, tag, draft, complete) ==
    [build |-> b, tag |-> tag, draft |-> draft, complete |-> complete]
Entries == [build : Build, tag : {"staging", "final"}, draft : BOOLEAN,
            complete : BOOLEAN]

\* What the download URL and the release list serve: drafts are hidden.
Visible == {e \in hub : ~e.draft}
Current == IF Visible = {} THEN 0 ELSE (CHOOSE e \in Visible : TRUE).build
Staging == {e \in hub : e.tag = "staging" /\ e.build = pub.build}

Quiet == [step |-> "idle", build |-> 1, old |-> 1, result |-> "none"]

Fault == faults < MaxFaults /\ faults' = faults + 1

Outcome(result) ==
    pub' = [pub EXCEPT !.step = "idle", !.result = result]

\* A maintainer runs obs-release publish once more; build 1 is already out.
Publish(b, f) ==
    /\ pub.step = "idle"
    /\ b = pub.build + 1
    /\ pub' = [step |-> "gate", build |-> b, old |-> Current,
               result |-> "none"]
    /\ flaw' = [flaw EXCEPT ![b] = f]
    /\ UNCHANGED <<hub, faults>>

\* scan, manifest_covers_payload, payload_has_no_builder_paths and sha256sum -c only
\* read the directory of the build: the first that finds its flaw ends the publish.  The
\* flaw of a directory that was rejected is forgotten: it is not published again.
Gate ==
    /\ pub.step = "gate"
    /\ IF flaw[pub.build] \in Gates
       THEN Outcome("rejected") /\ flaw' = [flaw EXCEPT ![pub.build] = "none"]
       ELSE pub' = [pub EXCEPT !.step = "create"] /\ UNCHANGED flaw
    /\ UNCHANGED <<hub, faults>>

\* Mutant: the release is created in the open, under its final tag.
CreateVisible ==
    /\ pub.step = "create"
    /\ hub' = hub \cup {Entry(pub.build, "final", FALSE, TRUE)}
    /\ pub' = [pub EXCEPT !.step = "id"]
    /\ UNCHANGED <<flaw, faults>>

\* gh release create --draft uploads every file under the staging tag.
Create ==
    /\ pub.step = "create"
    /\ hub' = hub \cup {Entry(pub.build, "staging", TRUE, TRUE)}
    /\ pub' = [pub EXCEPT !.step = "id"]
    /\ UNCHANGED <<flaw, faults>>

\* Mutant: the exit status of gh release create is not looked at.
CreateFailsUnseen ==
    /\ pub.step = "create" /\ Fault
    /\ \E e \in {{}, {Entry(pub.build, "staging", TRUE, FALSE)}} : hub' = hub \cup e
    /\ pub' = [pub EXCEPT !.step = "id"]
    /\ UNCHANGED flaw

\* It may fail after the draft exists, with part of the files.
CreateFails ==
    /\ pub.step = "create" /\ Fault
    /\ \E e \in {{}, {Entry(pub.build, "staging", TRUE, FALSE)}} : hub' = hub \cup e
    /\ pub' = [pub EXCEPT !.step = "discard"]
    /\ UNCHANGED flaw

\* discard_staging: best effort.
Discard ==
    /\ pub.step = "discard"
    /\ \/ hub' = hub \ Staging /\ UNCHANGED faults
       \/ Fault /\ UNCHANGED hub
    /\ Outcome("upload_failed")
    /\ UNCHANGED flaw

\* staging_release_id: without the id the draft is left where it is.
Resolve ==
    /\ pub.step = "id"
    /\ \/ /\ Staging # {}
          /\ pub' = [pub EXCEPT !.step = "delete"]
          /\ UNCHANGED faults
       \/ ((Staging = {} /\ UNCHANGED faults) \/ Fault) /\ Outcome("no_id")
    /\ UNCHANGED <<hub, flaw>>

\* release view finds a release of the tag, or a draft of it; the result of the
\* delete is ignored.
DeleteOld ==
    /\ pub.step = "delete"
    /\ \/ /\ hub' = hub \ (IF Visible # {} THEN Visible
                           ELSE {e \in hub : e.tag = "final"})
          /\ UNCHANGED faults
       \/ Fault /\ UNCHANGED hub
    /\ pub' = [pub EXCEPT !.step = "retag"]
    /\ UNCHANGED flaw

Retag ==
    /\ pub.step = "retag"
    /\ \/ /\ hub' = (hub \ Staging) \cup {[e EXCEPT !.tag = "final"] : e \in Staging}
          /\ pub' = [pub EXCEPT !.step = "undraft"]
          /\ UNCHANGED faults
       \/ Fault /\ Outcome("retag_failed") /\ UNCHANGED hub
    /\ UNCHANGED flaw

Retagged == {e \in hub : e.draft /\ e.tag = "final" /\ e.build = pub.build}

\* Mutant: the answer of the last call is not looked at.
UndraftUnseen ==
    /\ pub.step = "undraft"
    /\ \/ /\ Visible = {}
          /\ hub' = (hub \ Retagged) \cup {[e EXCEPT !.draft = FALSE] : e \in Retagged}
          /\ Outcome("ok") /\ UNCHANGED faults
       \/ /\ (Visible # {} /\ UNCHANGED faults) \/ Fault
          /\ Outcome("ok") /\ UNCHANGED hub
    /\ UNCHANGED flaw

\* Un-draft: refused while another release holds the tag.
Undraft ==
    /\ pub.step = "undraft"
    /\ \/ /\ Visible = {}
          /\ hub' = (hub \ Retagged) \cup {[e EXCEPT !.draft = FALSE] : e \in Retagged}
          /\ Outcome("ok") /\ UNCHANGED faults
       \/ /\ (Visible # {} /\ UNCHANGED faults) \/ Fault
          /\ Outcome("hidden") /\ UNCHANGED hub
    /\ UNCHANGED flaw

\* The tool is killed between two calls.
KillPublisher ==
    /\ pub.step # "idle" /\ Fault
    /\ Outcome("killed")
    /\ UNCHANGED <<hub, flaw>>

ReleaseInit ==
    /\ hub = {Entry(1, "final", FALSE, TRUE)}
    /\ pub = Quiet
    /\ flaw = [b \in Build |-> "none"]
    /\ faults = 0

PublisherNext ==
    \/ \E b \in Build, f \in Flaw : Publish(b, f)
    \/ Gate \/ Create \/ CreateFails \/ Discard \/ Resolve \/ DeleteOld
    \/ Retag \/ Undraft \/ KillPublisher

=============================================================================
