------------------------------- MODULE Assets -------------------------------
(***************************************************************************)
(* How the launcher obtains what it runs, while releases are cut: the      *)
(* asset phase of obs provision for both providers (provision.rs,          *)
(* openshell_fetch.rs, and the verification at the start of run_inner in   *)
(* openshell_provision.rs) and obs update (update.rs), in one directory.   *)
(*                                                                         *)
(* A file is the build it was downloaded from and whether it is whole: a   *)
(* transfer that breaks off leaves part of a file behind, and one that     *)
(* succeeds may have been answered with something else.  A digest matches  *)
(* exactly when the file is the whole asset of the build whose manifest is *)
(* consulted.  The places a file is looked for (working directory, bundle  *)
(* and launcher directory) are one, and the release line is fixed.         *)
(***************************************************************************)
EXTENDS Release

CONSTANT MaxCommands   \* bound on the commands an operator runs

ASSUME AssetsAssumption == MaxCommands \in Nat

VARIABLES
    dir,        \* the files of the working directory
    bundle,     \* the three OpenShell binaries: none, some, torn or whole
    installed,  \* the obs binary that the operator runs
    cmd,        \* the command in progress, or the outcome of the last one
    commands    \* number of commands started

assetVars == <<dir, bundle, installed, cmd, commands>>
vars == <<releaseVars, assetVars>>

File == [build : 0..MaxBuild, whole : BOOLEAN]
Missing == [build |-> 0, whole |-> FALSE]
Whole(b) == [build |-> b, whole |-> TRUE]
Torn(b) == [build |-> b, whole |-> FALSE]

IsFile(f) == f # Missing

\* The OpenBox assets of a release, its manifest, and the registry binary that is
\* pinned by digest in the launcher (its one build is 1).
Asset == {"service", "policy", "image", "layout", "obs", "sums", "zot"}

\* What one provisioned service is made of.
Parts == {"service", "policy", "image", "layout", "zot"}

Nothing == [a \in Parts |-> Missing]

Plans ==
    [native     |-> << <<"ensure", "service">>, <<"policy", "first">>,
                       <<"policy", "again">>, <<"use", "all">> >>,
     openshell  |-> << <<"bundle", "all">>, <<"get", "service">>,
                       <<"get", "policy">>, <<"ensure", "policy">>,
                       <<"get", "image">>, <<"get", "layout">>, <<"zot", "pin">>,
                       <<"verify", "service">>, <<"verify", "policy">>,
                       <<"verify", "image">>, <<"verify", "layout">>,
                       <<"use", "all">> >>,
     update     |-> << <<"get", "obs">>, <<"get", "service">>, <<"get", "sums">>,
                       <<"compare", "all">>, <<"stage", "obs">>,
                       <<"replace", "obs">> >>,
     update_all |-> << <<"get", "obs">>, <<"get", "service">>, <<"get", "sums">>,
                       <<"get", "policy">>, <<"get", "image">>,
                       <<"get", "layout">>, <<"compare", "all">>,
                       <<"stage", "obs">>, <<"replace", "obs">> >>]

Done == [on |-> FALSE, name |-> "none", step |-> 1, sub |-> "enter",
         manifest |-> Missing, expect |-> 0, drop |-> FALSE,
         staged |-> Missing, used |-> Nothing, result |-> "none"]

At(name, step, sub) ==
    /\ cmd.on /\ cmd.name = name
    /\ Plans[name][cmd.step] = step /\ cmd.sub = sub

Sub(sub) == cmd' = [cmd EXCEPT !.sub = sub]
NextStep(c) == [c EXCEPT !.step = @ + 1, !.sub = "enter"]
Finish(c, result) ==
    [Done EXCEPT !.name = c.name, !.used = c.used, !.result = result]
Fail == cmd' = Finish(cmd, "err")

-----------------------------------------------------------------------------
(* Transfers and digests. *)

\* What curl -fsSL -o can do to a file when build b is served (0: nothing is):
\* an HTTP error leaves the file alone, a broken transfer leaves a part.
Transfers(old, b) ==
    IF b = 0 THEN {[ok |-> FALSE, file |-> old, fault |-> 0]}
    ELSE {[ok |-> TRUE, file |-> Whole(b), fault |-> 0],
          [ok |-> FALSE, file |-> old, fault |-> 1],
          [ok |-> FALSE, file |-> Torn(b), fault |-> 1],
          [ok |-> TRUE, file |-> Torn(b), fault |-> 1]}

Charge(t) == faults + t.fault <= MaxFaults /\ faults' = faults + t.fault

\* The builds whose digest a manifest may record for an asset, 0 for no entry: a
\* torn manifest still has its first lines.
Recorded(m) == IF m.whole \/ m = Missing THEN {m.build} ELSE {0, m.build}

Matches(f, b) == b # 0 /\ f = Whole(b)

\* What looking up an asset in a manifest can give: the manifest m, or the one that
\* is fetched when there is none, and the build it records for the asset.
Lookup(m) ==
    UNION {{[file |-> t.file, build |-> b, fault |-> t.fault] :
                b \in IF t.ok THEN Recorded(t.file) ELSE {0}} :
           t \in IF IsFile(m) THEN {[ok |-> TRUE, file |-> m, fault |-> 0]}
                 ELSE Transfers(Missing, Current)}

\* manifest_digest: fetched once per process, and read even after a broken fetch.
ManifestDigest == Lookup(cmd.manifest)

Keep(m, c) == [c EXCEPT !.manifest = m]

\* What follows a download: go on, whatever came of it, or fail.
Continue(c, ok, required) ==
    IF ok \/ ~required THEN NextStep(c) ELSE Finish(c, "err")

\* ensure_verified_asset: a local copy is removed when it does not match.
EnsureLocal(a) ==
    IF ~IsFile(dir[a])
    THEN Sub("download") /\ UNCHANGED <<dir, faults>>
    ELSE \E m \in ManifestDigest :
             /\ Charge(m)
             /\ IF m.build = 0 \/ Matches(dir[a], m.build)
                THEN cmd' = NextStep(Keep(m.file, cmd)) /\ UNCHANGED dir
                ELSE /\ cmd' = Keep(m.file, [cmd EXCEPT !.sub = "download"])
                     /\ dir' = [dir EXCEPT ![a] = Missing]

\* download_openbox_asset: the transfer ...
Download(a, required) ==
    \E t \in Transfers(dir[a], Current) :
        /\ Charge(t)
        /\ dir' = [dir EXCEPT ![a] = t.file]
        /\ cmd' = IF t.ok THEN [cmd EXCEPT !.sub = "verify"]
                  ELSE Continue(cmd, FALSE, required)

\* ... and the comparison with the manifest.
Verify(a, required) ==
    \E m \in ManifestDigest :
        /\ Charge(m)
        /\ cmd' = Continue(Keep(m.file, cmd), Matches(dir[a], m.build), required)
        /\ dir' = IF Matches(dir[a], m.build) THEN dir ELSE [dir EXCEPT ![a] = Missing]

-----------------------------------------------------------------------------
(* obs provision, native: auto_fetch_native_assets. *)

Start(name) ==
    /\ ~cmd.on /\ commands < MaxCommands
    /\ cmd' = [Done EXCEPT !.on = TRUE, !.name = name]
    /\ commands' = commands + 1
    /\ UNCHANGED <<releaseVars, dir, bundle, installed>>

\* The service must be accepted by ensure_verified_asset.
NativeService ==
    /\ \/ At("native", <<"ensure", "service">>, "enter") /\ EnsureLocal("service")
       \/ At("native", <<"ensure", "service">>, "download") /\ Download("service", TRUE)
       \/ At("native", <<"ensure", "service">>, "verify") /\ Verify("service", TRUE)
    /\ UNCHANGED <<hub, pub, flaw, bundle, installed, commands>>

\* A policy that is there is taken.  Otherwise both templates are fetched, and then
\* the policy once more, because the choice was made before.
NativePolicy ==
    /\ \/ /\ At("native", <<"policy", "first">>, "enter")
          /\ IF IsFile(dir["policy"])
             THEN cmd' = NextStep(NextStep(cmd)) ELSE Sub("download")
          /\ UNCHANGED <<dir, faults>>
       \/ /\ At("native", <<"policy", "again">>, "enter")
          /\ Sub("download") /\ UNCHANGED <<dir, faults>>
       \/ \E time \in {"first", "again"} :
            \/ At("native", <<"policy", time>>, "download") /\ Download("policy", FALSE)
            \/ At("native", <<"policy", time>>, "verify") /\ Verify("policy", FALSE)
    /\ UNCHANGED <<hub, pub, flaw, bundle, installed, commands>>

\* The paths are handed to native_provision::run.
NativeUse ==
    /\ At("native", <<"use", "all">>, "enter")
    /\ cmd' = IF IsFile(dir["policy"])
              THEN Finish([cmd EXCEPT !.used["service"] = dir["service"],
                                      !.used["policy"] = dir["policy"]], "ok")
              ELSE Finish(cmd, "err")
    /\ UNCHANGED <<releaseVars, dir, bundle, installed, commands>>

-----------------------------------------------------------------------------
(* obs provision, openshell: auto_fetch_bundle, ensure_release_assets and    *)
(* the verification of run_inner.                                            *)

\* Everything is there: nothing is fetched.
Ready == bundle \in {"torn", "whole"} /\ IsFile(dir["service"]) /\ IsFile(dir["policy"])

\* openshell_fetch::fetch verifies the tarballs in a temporary directory.
FetchBundle ==
    /\ At("openshell", <<"bundle", "all">>, "enter")
    /\ \/ Ready /\ cmd' = NextStep(cmd) /\ UNCHANGED faults
       \/ ~Ready /\ Sub("place") /\ UNCHANGED faults
       \/ ~Ready /\ Fault /\ Fail
    /\ UNCHANGED <<hub, pub, flaw, dir, bundle, installed, commands>>

\* place copies three files over what is there; a copy may stop half-way.
Place ==
    /\ At("openshell", <<"bundle", "all">>, "place")
    /\ \/ bundle' = "whole" /\ cmd' = NextStep(cmd) /\ UNCHANGED faults
       \/ /\ Fault
          /\ bundle' \in IF bundle \in {"none", "some"} THEN {"some", "torn"} ELSE {"torn"}
          /\ Fail
    /\ UNCHANGED <<hub, pub, flaw, dir, installed, commands>>

\* download_openbox_asset of what is missing.  In auto_fetch_bundle a failure ends
\* the command, in ensure_release_assets it is ignored.
FetchMissing ==
    /\ \E a \in {"service", "policy", "image", "layout"} :
         LET step == <<"get", a>>
             required == a \in {"service", "policy"}
         IN  \/ /\ At("openshell", step, "enter")
                /\ IF IsFile(dir[a]) THEN cmd' = NextStep(cmd) ELSE Sub("download")
                /\ UNCHANGED <<dir, faults>>
             \/ At("openshell", step, "download") /\ Download(a, required)
             \/ At("openshell", step, "verify") /\ Verify(a, required)
    /\ UNCHANGED <<hub, pub, flaw, bundle, installed, commands>>

\* The service is skipped, because auto_fetch_bundle has named it; the result is
\* ignored.
EnsurePolicy ==
    /\ \/ At("openshell", <<"ensure", "policy">>, "enter") /\ EnsureLocal("policy")
       \/ At("openshell", <<"ensure", "policy">>, "download") /\ Download("policy", FALSE)
       \/ At("openshell", <<"ensure", "policy">>, "verify") /\ Verify("policy", FALSE)
    /\ UNCHANGED <<hub, pub, flaw, bundle, installed, commands>>

\* fetch_pinned_zot: downloaded under another name, renamed, then checked.
FetchZot ==
    /\ \/ /\ At("openshell", <<"zot", "pin">>, "enter")
          /\ IF IsFile(dir["zot"])
             THEN cmd' = NextStep(cmd) /\ UNCHANGED <<dir, faults>>
             ELSE \E t \in Transfers(Missing, 1) :
                    /\ Charge(t)
                    /\ dir' = IF t.ok THEN [dir EXCEPT !["zot"] = t.file] ELSE dir
                    /\ cmd' = IF t.ok THEN [cmd EXCEPT !.sub = "check"]
                              ELSE NextStep(cmd)
       \/ /\ At("openshell", <<"zot", "pin">>, "check")
          /\ dir' = IF dir["zot"].whole THEN dir ELSE [dir EXCEPT !["zot"] = Missing]
          /\ cmd' = NextStep(cmd) /\ UNCHANGED faults
    /\ UNCHANGED <<hub, pub, flaw, bundle, installed, commands>>

\* verify_asset refused: fatal, except for the OCI layout, which is then not used.
Refuse(a, c) ==
    IF a = "layout" THEN NextStep([c EXCEPT !.drop = TRUE]) ELSE Finish(c, "err")

\* published_checksum: SHA256SUMS of the directory, fetched into it when there is
\* none.
PublishedChecksum == Lookup(dir["sums"])

\* Mutant: without a published checksum the local copy is taken.
VerifyLocalOpen(a) ==
    IF ~IsFile(dir[a])
    THEN cmd' = (IF a \in {"service", "policy"} THEN Finish(cmd, "err") ELSE NextStep(cmd))
         /\ UNCHANGED <<dir, faults>>
    ELSE \E m \in PublishedChecksum :
           LET d == [dir EXCEPT !["sums"] = m.file]
           IN  /\ Charge(m)
               /\ IF m.build = 0 \/ Matches(d[a], m.build)
                  THEN cmd' = NextStep(cmd) /\ dir' = d
                  ELSE /\ cmd' = [cmd EXCEPT !.sub = "redownload", !.expect = m.build]
                       /\ dir' = [d EXCEPT ![a] = Missing]

\* verify_asset: fails closed without a published checksum, removes what does not
\* match.
VerifyLocal(a) ==
    IF ~IsFile(dir[a])
    THEN cmd' = (IF a \in {"service", "policy"} THEN Finish(cmd, "err") ELSE NextStep(cmd))
         /\ UNCHANGED <<dir, faults>>
    ELSE \E m \in PublishedChecksum :
           LET d == [dir EXCEPT !["sums"] = m.file]
           IN  /\ Charge(m)
               /\ IF m.build = 0 THEN cmd' = Refuse(a, cmd) /\ dir' = d
                  ELSE IF Matches(d[a], m.build) THEN cmd' = NextStep(cmd) /\ dir' = d
                  ELSE /\ cmd' = [cmd EXCEPT !.sub = "redownload", !.expect = m.build]
                       /\ dir' = [d EXCEPT ![a] = Missing]

Redownload(a) ==
    \E t \in Transfers(dir[a], Current) :
        /\ Charge(t)
        /\ dir' = [dir EXCEPT ![a] = t.file]
        /\ cmd' = IF t.ok THEN [cmd EXCEPT !.sub = "recheck"] ELSE Refuse(a, cmd)

Recheck(a) ==
    /\ UNCHANGED faults
    /\ IF Matches(dir[a], cmd.expect)
       THEN cmd' = NextStep(cmd) /\ UNCHANGED dir
       ELSE cmd' = Refuse(a, cmd) /\ dir' = [dir EXCEPT ![a] = Missing]

\* verify_provision_assets; the prepared VM cache is treated like the layout.
VerifyProvisionAssets ==
    /\ \E a \in {"service", "policy", "image", "layout"} :
         \/ At("openshell", <<"verify", a>>, "enter") /\ VerifyLocal(a)
         \/ At("openshell", <<"verify", a>>, "redownload") /\ Redownload(a)
         \/ At("openshell", <<"verify", a>>, "recheck") /\ Recheck(a)
    /\ UNCHANGED <<hub, pub, flaw, bundle, installed, commands>>

\* require_compatible_binary runs the three binaries; without the image archive
\* prepare_dev_image needs an image the container runtime already has.
OpenShellUse ==
    /\ At("openshell", <<"use", "all">>, "enter")
    /\ \/ /\ bundle = "whole"
          /\ cmd' = Finish([cmd EXCEPT
                 !.used = [a \in Parts |-> IF a = "layout" /\ cmd.drop THEN Missing
                                           ELSE dir[a]]], "ok")
       \/ (bundle # "whole" \/ ~IsFile(dir["image"])) /\ Fail
    /\ UNCHANGED <<releaseVars, dir, bundle, installed, commands>>

-----------------------------------------------------------------------------
(* obs update, obs update --all. *)

Updates == {"update", "update_all"}

\* A failed transfer is ignored here.
UpdateGet ==
    /\ \E u \in Updates, a \in Asset :
         /\ At(u, <<"get", a>>, "enter")
         /\ \E t \in Transfers(dir[a], Current) :
              Charge(t) /\ dir' = [dir EXCEPT ![a] = t.file]
    /\ cmd' = NextStep(cmd)
    /\ UNCHANGED <<hub, pub, flaw, bundle, installed, commands>>

\* The required files are there and match SHA256SUMS.
Compare ==
    /\ \E u \in Updates : At(u, <<"compare", "all">>, "enter")
    /\ \E b \in [{"obs", "service"} -> Recorded(dir["sums"])] :
         cmd' = IF \A a \in {"obs", "service"} : Matches(dir[a], b[a])
                THEN NextStep(cmd) ELSE Finish(cmd, "err")
    /\ UNCHANGED <<releaseVars, dir, bundle, installed, commands>>

\* The copy beside the binary; it may fail half-way.
Stage ==
    /\ \E u \in Updates : At(u, <<"stage", "obs">>, "enter")
    /\ \/ cmd' = NextStep([cmd EXCEPT !.staged = dir["obs"]]) /\ UNCHANGED faults
       \/ Fault /\ Fail
    /\ UNCHANGED <<hub, pub, flaw, dir, bundle, installed, commands>>

Replace ==
    /\ \E u \in Updates : At(u, <<"replace", "obs">>, "enter")
    /\ \/ /\ installed' = cmd.staged
          /\ cmd' = Finish(cmd, "ok") /\ UNCHANGED faults
       \/ Fault /\ Fail /\ UNCHANGED installed
    /\ UNCHANGED <<hub, pub, flaw, dir, bundle, commands>>

\* The process of the command ends between two of its steps.  Its host stays up: the staged
\* copy is not synced before the rename, so a host that goes down may lose its content.
KillCommand ==
    /\ cmd.on /\ Fault
    /\ cmd' = Finish(cmd, "killed")
    /\ UNCHANGED <<hub, pub, flaw, dir, bundle, installed, commands>>

-----------------------------------------------------------------------------
Init ==
    /\ ReleaseInit
    /\ dir = [a \in Asset |-> Missing] /\ bundle = "none"
    /\ installed = Whole(1)
    /\ cmd = Done /\ commands = 0

Next ==
    \/ PublisherNext /\ UNCHANGED assetVars
    \/ \E name \in DOMAIN Plans : Start(name)
    \/ NativeService \/ NativePolicy \/ NativeUse
    \/ FetchBundle \/ Place \/ FetchMissing \/ EnsurePolicy \/ FetchZot
    \/ VerifyProvisionAssets \/ OpenShellUse
    \/ UpdateGet \/ Compare \/ Stage \/ Replace
    \/ KillCommand

Spec == Init /\ [][Next]_vars

-----------------------------------------------------------------------------
(* Properties. *)

\* The types of the state, and that one release at most is visible under the tag.
TypeOK ==
    /\ hub \subseteq Entries /\ Cardinality(Visible) <= 1
    /\ pub.build \in Build /\ pub.old \in 0..MaxBuild
    /\ flaw \in [Build -> Flaw]
    /\ faults \in 0..MaxFaults
    /\ dir \in [Asset -> File]
    /\ bundle \in {"none", "some", "torn", "whole"}
    /\ installed \in File
    /\ cmd.on => cmd.step \in DOMAIN Plans[cmd.name]
    /\ cmd.used \in [Parts -> File]

\* What publish makes visible passed every gate and carries every file, whatever
\* call failed on the way.
PublishedIsWhole ==
    \A e \in Visible : e.complete /\ flaw[e.build] = "none"

\* A publish that reports success left its build under the tag, and one that ends
\* before the old release is deleted left the tag alone: "the current release is
\* untouched".
PublishOutcomeIsTrue ==
    pub.step = "idle" =>
        /\ pub.result = "ok" => Current = pub.build
        /\ pub.result \in {"rejected", "upload_failed", "no_id"} => Current = pub.old

\* A publish is what it says: what is visible is whole, and an ok and the failures before
\* the old release is deleted are true.  Of a failed retag or un-draft nothing is said: its
\* message that the previous release is still current is false (publish.rs).
PublishIsSound == PublishedIsWhole /\ PublishOutcomeIsTrue

\* The release under the tag only goes away once a complete upload of its successor
\* is on the hub.
ReplacedOnlyByUpload ==
    [][Current' # Current => \E e \in hub : e.build = pub.build /\ e.complete]_vars

\* An OpenShell provision that goes ahead uses service, policy, image and layout of one
\* single release, each whole, although releases are cut and transfers break off in between.
\* The registry binary is not among them: a launcher killed between the rename and the check
\* of fetch_pinned_zot leaves one that no later run looks at again.
OpenShellUsesOneRelease ==
    cmd.name = "openshell" /\ cmd.result = "ok" =>
        \E b \in Build :
            /\ cmd.used["service"] = Whole(b) /\ cmd.used["policy"] = Whole(b)
            /\ \A a \in {"image", "layout"} : cmd.used[a] \in {Missing, Whole(b)}

\* The obs binary the operator runs is never half-written, whatever command is killed.
InstalledIsWhole == installed.whole

\* An update that reports success leaves launcher and service of one release.
UpdateIsOneRelease ==
    cmd.name \in Updates /\ cmd.result = "ok" =>
        \E b \in Build : installed = Whole(b) /\ dir["service"] = Whole(b)

\* What update installs, and what an OpenShell provision takes from the release, is whole
\* and of one release, although releases are cut, transfers break off and commands are
\* killed meanwhile; the pinned registry binary is left out.
CommandsUseOneRelease == OpenShellUsesOneRelease /\ UpdateIsOneRelease /\ InstalledIsWhole

\* "every asset is verified against the release manifest" (provision.rs, the banner
\* of the asset phase): what a native provision goes ahead with is whole.
NativeUsesVerified ==
    cmd.name = "native" /\ cmd.result = "ok" =>
        cmd.used["service"].whole /\ cmd.used["policy"].whole

=============================================================================
