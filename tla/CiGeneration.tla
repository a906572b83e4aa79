---------------------------- MODULE CiGeneration ----------------------------
(* `package pipeline generate ci` and the workflows it leaves in a mirror     *)
(* repository: rendering from the specs, the drift guard that re-renders on   *)
(* every relevant commit, and a run of the generated mirror workflow from its *)
(* test legs to the push gate.                                                *)
(* Source: src/command/package/pipeline/generate/ci.rs and ci/*.rs,           *)
(* templates/*.yml, push/{gating,verdict}.rs.                                 *)
(*                                                                            *)
(* A path is a sequence of components, the last one the file's name; a        *)
(* component is the sequence of words that '-' separates.                     *)
EXTENDS SpecLoad

\* Words are numbers in their alphabetical order.
Paths == Seq(Seq(Nat))

CONSTANTS
    DefaultSpec,   \* the path of the root mirror.yml
    RootTrees,     \* scripts/ and tests/: what a root spec's triggers cover besides itself
    Outside,       \* paths above the repository root
    Candidates,    \* file -> key -> the values an edit may give it
    Fresh,         \* file -> the document an edit creates it with
    FirstFiles,    \* the files of the repository at the start
    Scripts,       \* the test scripts that may exist
    SpecSets,      \* the sets of specs `generate ci` is called with
    MaxEdits, MaxRunEdits, MaxTool   \* bounds: commits, commits before a run, upgrades

ASSUME FilesAssumption ==
    /\ IsFiniteSet(DOMAIN FirstFiles)
    /\ DOMAIN FirstFiles \cup DOMAIN Fresh \subseteq Paths
    /\ \A path \in DOMAIN FirstFiles : DocumentOK(FirstFiles[path].doc)
    /\ \A path \in DOMAIN Fresh : DocumentOK(Fresh[path])
    /\ \A path \in DOMAIN Candidates : \A key \in DOMAIN Candidates[path] :
            \A value \in Candidates[path][key] : ValueOK(key, value)

VARIABLES
    files,    \* path -> [parses, doc]: specs and bases
    scripts,  \* the scripts that exist
    flows,    \* <<stem, suffix>> -> workflow, under .github/workflows
    tool,     \* the locked ocx-mirror
    guard,    \* the last verdict of verify-generated: None or [green, by]
    woken,    \* the workflows the last commit triggered
    flowRun,  \* a run of a mirror workflow: None or a record
    edits     \* commits so far, for the bound

\* f with x mapped to y.
Put(f, x, y) == [z \in DOMAIN f \cup {x} |-> IF z = x THEN y ELSE f[z]]

repo == <<files, scripts, flows, tool, guard, woken, edits>>
ciVars == <<repo, flowRun>>

-----------------------------------------------------------------------------
(* Where a spec sits (ci/slot.rs).                                            *)

Lex(a, b, LT(_, _)) ==
    \E i \in 1 .. Len(b) :
        /\ i <= Len(a) + 1 /\ \A j \in 1 .. i - 1 : a[j] = b[j]
        /\ i <= Len(a) => LT(a[i], b[i])
ComponentLT(a, b) == Lex(a, b, <)
PathLT(p, q) == Lex(p, q, ComponentLT)
\* The n-th element has n - 1 before it.
Sorted(S, LT(_, _)) ==
    [n \in 1 .. Cardinality(S) |-> CHOOSE x \in S : Cardinality({y \in S : LT(y, x)}) = n - 1]

dir(path) == Front(path)
suffix(path) == FlattenSeq(dir(path))
Under(path, tree) == IsStrictPrefix(tree, path)
is_default(path) == path = DefaultSpec

\* A variant of slot: only the base the spec names, not the ones above it.
NearestBase(path, chain) ==
    [relative |-> path, extends |-> IF chain = <<>> THEN {} ELSE {Head(chain)}]

slot(path, chain) == [relative |-> path, extends |-> ToSet(chain)]

extends_entries(s) ==
    {b \in s.extends : dir(s.relative) = <<>> \/ ~Under(b, dir(s.relative))}

\* `root_trees` are the globs of a root spec's own list.
subtree_entries(s, root_trees) ==
    IF dir(s.relative) = <<>> THEN [files |-> {s.relative}, trees |-> root_trees]
    ELSE [files |-> {}, trees |-> {dir(s.relative)}]
trigger_paths(s, root_trees, stem) ==
    LET own == subtree_entries(s, root_trees)
    IN  [files |-> own.files \cup extends_entries(s), trees |-> own.trees,
         flows |-> {<<stem, suffix(s.relative)>>}, all |-> FALSE]
Untriggered == [files |-> {}, trees |-> {}, flows |-> {}, all |-> FALSE]  \* dispatch or schedule only

\* Adjacent in path order, as `placed.windows(2)` sees them.
reject_colliding_slots(specs) ==
    LET sorted == Sorted(specs, PathLT)
    IN  \E i \in 1 .. Len(sorted) - 1 : suffix(sorted[i]) = suffix(sorted[i + 1])

-----------------------------------------------------------------------------
(* The test matrix (ci/matrix.rs).                                            *)

render_tests(entries) == SelectSeq(entries, LAMBDA t : Cardinality(t.kinds) = 1)
effective_tests(doc, config) ==
    IF config.tests # None THEN config.tests ELSE Get(doc, "tests", <<>>)
Declared(doc) == Get(doc, "platforms", [p \in {} |-> None])
Native == <<"_native_">>
resolved_id(container) == IF container.id # None THEN container.id ELSE <<container.image.base, container.image.tag>>
resolved_shell(container) ==
    IF container.shell # None THEN container.shell ELSE infer_shell_from_image(container.image)
native_shell(config, p) ==
    IF config.shell # None THEN config.shell
    ELSE IF p.os = "windows" THEN "pwsh" ELSE "bash"

platform_legs(doc, p) ==
    LET config == Declared(doc)[p]
        tests == render_tests(effective_tests(doc, config))
    IN  IF config.containers \in {None, <<>>}
        THEN {[platform |-> p, pos |-> 0, container_id |-> Native, image |-> None,
               libc |-> None, setup |-> None, shell |-> native_shell(config, p), tests |-> tests]}
        ELSE {LET c == config.containers[i] IN
              [platform |-> p, pos |-> i, container_id |-> resolved_id(c), image |-> c.image,
               libc |-> infer_libc_from_image(c.image), setup |-> c.setup,
               shell |-> resolved_shell(c), tests |-> tests] : i \in DOMAIN config.containers}
build_matrix(doc) == UNION {platform_legs(doc, p) : p \in DOMAIN Declared(doc)}

-----------------------------------------------------------------------------
(* Credentials (ci/permissions.rs).  A permission set is empty when the       *)
(* workflow leaves the repository's default in force.                         *)

Ghcr(doc) == doc["target"].registry = "ghcr.io"
signs_keyless(doc) == Opt(doc, "sign") # None /\ doc["sign"].keyless # None
IdToken(doc) == IF signs_keyless(doc) THEN {"id-token:write"} ELSE {}
render_push_permissions(doc) ==
    CASE Ghcr(doc) -> {"contents:read", "packages:write", "actions:read", "checks:write",
                       "pull-requests:write"} \cup IdToken(doc)
      [] ~Ghcr(doc) /\ signs_keyless(doc) ->
            {"contents:read", "actions:read", "checks:write", "pull-requests:write"} \cup IdToken(doc)
      [] OTHER -> {}
render_patch_permissions(doc) ==
    CASE Ghcr(doc) -> {"contents:read", "packages:write"} \cup IdToken(doc)
      [] ~Ghcr(doc) /\ signs_keyless(doc) -> {"contents:read"} \cup IdToken(doc)
      [] OTHER -> {}
render_discover_permissions(doc) == IF Ghcr(doc) THEN {"contents:read", "packages:read"} ELSE {}
render_registry_write_permissions(doc) ==
    IF Ghcr(doc) THEN {"contents:read", "packages:write"} ELSE {}

\* The references of `sign:`, by the context a workflow reads their names from.
SignVars(sign) ==
    (IF sign.keyless # None THEN {sign.keyless.fulcio, sign.keyless.rekor} ELSE {})
        \cup (IF sign.key # None THEN {sign.key.rekor} ELSE {})
SignSecrets(sign) ==
    (IF sign.keyless # None THEN {sign.keyless.identity_token} ELSE {})
        \cup (IF sign.key # None THEN {sign.key.ref, sign.key.passphrase} ELSE {})
EnvNames(refs) == {r.text : r \in {q \in refs \ {None} : q.form = "env"}}

\* Name -> context; a name both contexts claim is a secret.
render_sign_env(doc) ==
    IF Opt(doc, "sign") = None THEN [n \in {} |-> None]
    ELSE [n \in EnvNames(SignVars(doc["sign"])) \cup EnvNames(SignSecrets(doc["sign"])) |->
            IF n \in EnvNames(SignSecrets(doc["sign"])) THEN "secrets" ELSE "vars"]

\* Whether the publishing steps run at all: ghcr.io always has its token, any
\* other registry when the organisation's secret is configured.
render_registry_auth_steps(doc) == IF Ghcr(doc) THEN "GITHUB_TOKEN" ELSE "OCX_MIRROR_REGISTRY_TOKEN"

-----------------------------------------------------------------------------
(* Rendering (ci.rs, ci/aux_workflows.rs).                                    *)

spec_arg(path) == IF is_default(path) THEN {} ELSE {path}
Schedule(doc, key) == IF Opt(doc, key) = None THEN None ELSE doc[key].schedule

\* What every workflow file holds: the tool that rendered it, the specs its
\* commands name, its triggers, and the rest.  `pins` are the @refs of its
\* actions, `actions` their identities, `logic` everything else in the file.
Workflow(by, specs, triggers, schedule, grants, body) ==
    [by |-> by, specs |-> specs, triggers |-> triggers, schedule |-> schedule,
     grants |-> grants, body |-> body, pins |-> "baked", actions |-> "baked", logic |-> "baked"]

render_workflow(by, doc, s) ==
    Workflow(by, spec_arg(s.relative), trigger_paths(s, RootTrees, "mirror"),
             IF Opt(doc, "versions") = None THEN None ELSE doc["versions"].poll_interval,
             [discover |-> render_discover_permissions(doc), push |-> render_push_permissions(doc),
              auth |-> render_registry_auth_steps(doc), env |-> render_sign_env(doc)],
             [legs |-> build_matrix(doc), env_package |-> is_env(doc["source"]),
              locks |-> doc["source"].type = "pypi", target |-> doc["target"],
              name |-> doc["name"], notify |-> Opt(doc, "notify")])
render_describe(by, doc, s) ==
    Workflow(by, spec_arg(s.relative), trigger_paths(s, {}, "describe"), None,
             [write |-> render_registry_write_permissions(doc),
              auth |-> render_registry_auth_steps(doc)], doc["target"].registry)
render_patch(by, doc, s) ==
    Workflow(by, spec_arg(s.relative), Untriggered, None,
             [patch |-> render_patch_permissions(doc), auth |-> render_registry_auth_steps(doc),
              env |-> render_sign_env(doc)], None)
render_cascade(by, doc, s) ==
    Workflow(by, spec_arg(s.relative), Untriggered, Schedule(doc, "cascade"),
             [write |-> render_registry_write_permissions(doc),
              auth |-> render_registry_auth_steps(doc)], doc["name"])
render_announce_from_registry(by, doc, s) ==
    Workflow(by, spec_arg(s.relative), Untriggered, Schedule(doc, "announce"),
             [read |-> render_discover_permissions(doc), auth |-> render_registry_auth_steps(doc)], None)

\* One guard for the repository: it watches every spec, every base and every workflow.
verify_spec_args(slots) ==
    IF \A s \in slots : is_default(s.relative) THEN {} ELSE {s.relative : s \in slots}
\* A variant of render_verify_generated: it watches the specs and the workflows only.
GuardWithoutBases(by, slots) ==
    LET own == {subtree_entries(s, RootTrees) : s \in slots}
    IN  Workflow(by, verify_spec_args(slots),
                 [files |-> UNION {o.files : o \in own}, trees |-> UNION {o.trees : o \in own},
                  flows |-> {}, all |-> TRUE], None, {}, None)
render_verify_generated(by, slots) ==
    LET own == {subtree_entries(s, RootTrees) : s \in slots}
    IN  Workflow(by, verify_spec_args(slots),
                 [files |-> (UNION {o.files : o \in own}) \cup (UNION {extends_entries(s) : s \in slots}),
                  trees |-> UNION {o.trees : o \in own}, flows |-> {}, all |-> TRUE],
                 None, {}, None)

\* One file per stem, all under the spec's suffix.
SpecStems(doc) ==
    {"mirror", "describe", "patch"}
        \cup (IF Opt(doc, "cascade") # None => doc["cascade"].enabled THEN {"cascade"} ELSE {})
        \cup (IF Opt(doc, "announce") # None THEN {"announce-from-registry"} ELSE {})
render_spec(by, doc, s) ==
    [k \in {<<stem, suffix(s.relative)>> : stem \in SpecStems(doc)} |->
        CASE k[1] = "mirror" -> render_workflow(by, doc, s)
          [] k[1] = "describe" -> render_describe(by, doc, s)
          [] k[1] = "patch" -> render_patch(by, doc, s)
          [] k[1] = "cascade" -> render_cascade(by, doc, s)
          [] OTHER -> render_announce_from_registry(by, doc, s)]

Guard == <<"verify-generated", <<>>>>
\* placed: the specs with their slots and documents.
render(by, placed) ==
    LET own == [one \in placed |-> render_spec(by, one.doc, one.slot)]
        guarded == \E one \in placed : ~Get(one.doc, "allow_manual_edits", FALSE)
    IN  [k \in (UNION {DOMAIN own[one] : one \in placed}) \cup (IF guarded THEN {Guard} ELSE {}) |->
            IF k = Guard THEN render_verify_generated(by, {one.slot : one \in placed})
            ELSE own[CHOOSE one \in placed : k \in DOMAIN own[one]][k]]

\* `ocx_install:` is looked for in the text of the spec's own file.
load_one(fs, path) ==
    IF path \in DOMAIN fs /\ fs[path].parses /\ "ocx_install" \in DOMAIN fs[path].doc
    THEN [exit |-> UsageError, doc |-> <<>>, chain |-> <<>>]
    ELSE load_spec(fs, path)

\* The specs with what their loading gave, and whether all have a place.
Placed(fs, specs) ==
    {[doc |-> loaded[2].doc, exit |-> loaded[2].exit, slot |-> slot(loaded[1], loaded[2].chain)]
        : loaded \in {<<p, load_one(fs, p)>> : p \in specs}}
Places(placed) ==
    /\ \A one \in placed : one.exit = Ok /\ one.slot.extends \cap Outside = {}
    /\ ~reject_colliding_slots({one.slot.relative : one \in placed})

\* Every `script:` resolves from the repository root, per-platform tests included.
validate_test_scripts(doc, existing) ==
    LET lists == {Get(doc, "tests", <<>>)}
                 \cup {effective_tests(doc, Declared(doc)[p]) : p \in DOMAIN Declared(doc)}
    IN  \A list \in lists : \A t \in ToSet(list) : "script" \in t.kinds => t.body \in existing

-----------------------------------------------------------------------------
(* Writing and checking (ci/drift.rs).                                        *)

Stems == <<"announce-from-registry", "cascade", "describe", "mirror", "patch", "verify-generated">>
Rank(stem) == CHOOSE i \in DOMAIN Stems : Stems[i] = stem
\* '-' sorts before the '.' of ".yml", so a longer suffix comes first.
KeyLT(a, b) ==
    \/ Rank(a[1]) < Rank(b[1])
    \/ a[1] = b[1] /\ IF IsStrictPrefix(b[2], a[2]) THEN TRUE
                      ELSE ~IsPrefix(a[2], b[2]) /\ Lex(a[2], b[2], <)
\* File by file in path order; `n` are written when the writer stops.
write_files(rendered, n) ==
    LET written == {k \in DOMAIN rendered : Cardinality({j \in DOMAIN rendered : KeyLT(j, k)}) < n}
    IN  [k \in DOMAIN flows \cup written |-> IF k \in written THEN rendered[k] ELSE flows[k]]

normalize_for_drift(w) == [w EXCEPT !.pins = None]
stale_generated(rendered, on_disk) == DOMAIN on_disk \ DOMAIN rendered
check_drift(rendered, on_disk) ==
    /\ \A k \in DOMAIN rendered :
        k \in DOMAIN on_disk /\ normalize_for_drift(on_disk[k]) = normalize_for_drift(rendered[k])
    /\ stale_generated(rendered, on_disk) = {}

\* The specs a committed workflow's commands name.
Named(w) == IF w.specs = {} THEN {DefaultSpec} ELSE w.specs
Check(fs, existing, on_disk, by) ==
    \E placed \in {Placed(fs, Named(on_disk[Guard]))} :
        /\ Places(placed)
        /\ \A one \in placed : validate_test_scripts(one.doc, existing)
        /\ \E rendered \in {render(by, placed)} : check_drift(rendered, on_disk)

-----------------------------------------------------------------------------
(* Commits.  GitHub runs the workflows of the pushed commit whose paths match *)
(* what the commit changed.                                                   *)

Triggers(w, changed) ==
    \/ w.triggers.files \cap changed.files # {}
    \/ \E p \in changed.files, t \in w.triggers.trees : Under(p, t)
    \/ w.triggers.flows \cap changed.flows # {}
    \/ w.triggers.all /\ changed.flows # {}

Commit(changed) ==
    /\ edits < MaxEdits /\ flowRun = None
    /\ edits' = edits + 1
    /\ woken' = {k \in DOMAIN flows' : Triggers(flows'[k], changed)}
    /\ guard' = IF Guard \in woken'
                THEN [green |-> Check(files', scripts', flows', tool'), by |-> tool']
                ELSE guard
    /\ UNCHANGED flowRun
OnlyFile(path) == [files |-> {path}, flows |-> {}]
OnlyFlow(key) == [files |-> {}, flows |-> {key}]

Change(path, doc) ==
    /\ files' = Put(files, path, [parses |-> TRUE, doc |-> doc])
    /\ UNCHANGED <<scripts, flows, tool>>
    /\ Commit(OnlyFile(path))
EditKey(path, key) ==
    /\ path \in DOMAIN files
    /\ \E value \in Candidates[path][key] :
        /\ Opt(files[path].doc, key) # value
        /\ Change(path, Put(files[path].doc, key, value))
DropKey(path, key) ==
    /\ path \in DOMAIN files /\ key \in DOMAIN files[path].doc
    /\ Change(path, [k \in DOMAIN files[path].doc \ {key} |-> files[path].doc[k]])
CreateFile(path) == path \notin DOMAIN files /\ Change(path, Fresh[path])
DeleteFile(path) ==
    /\ path \in DOMAIN files
    /\ files' = [p \in DOMAIN files \ {path} |-> files[p]]
    /\ UNCHANGED <<scripts, flows, tool>>
    /\ Commit(OnlyFile(path))
ToggleScript(path) ==
    /\ scripts' = IF path \in scripts THEN scripts \ {path} ELSE scripts \cup {path}
    /\ UNCHANGED <<files, flows, tool>>
    /\ Commit(OnlyFile(path))

\* Renovate bumps a pin; a maintainer swaps an action, edits the rest, narrows
\* the specs of a command, or deletes the file.
HandEdit(key) ==
    /\ \/ \E w \in {[flows[key] EXCEPT !.pins = "bumped"], [flows[key] EXCEPT !.actions = "other"],
                    [flows[key] EXCEPT !.logic = "other"]}
                   \cup {[flows[key] EXCEPT !.specs = S] : S \in SUBSET flows[key].specs} :
            w # flows[key] /\ flows' = [flows EXCEPT ![key] = w]
       \/ flows' = [k \in DOMAIN flows \ {key} |-> flows[k]]
    /\ UNCHANGED <<files, scripts, tool>>
    /\ Commit(OnlyFlow(key))

\* The lock names a newer ocx-mirror; no workflow's paths name the lock.
Upgrade ==
    /\ tool < MaxTool /\ tool' = tool + 1
    /\ UNCHANGED <<files, scripts, flows>>
    /\ Commit([files |-> {}, flows |-> {}])

Generate(specs) ==
    /\ edits < MaxEdits
    /\ \E placed \in {Placed(files, specs)} :
        /\ Places(placed)
        /\ \A one \in placed : validate_test_scripts(one.doc, scripts)
        /\ \E rendered \in {render(tool, placed)} :
            \E n \in 1 .. Cardinality(DOMAIN rendered) : flows' = write_files(rendered, n)
    /\ flows' # flows
    /\ UNCHANGED <<files, scripts, tool>>
    /\ Commit([files |-> {},
               flows |-> {k \in DOMAIN flows' : k \notin DOMAIN flows \/ flows'[k] # flows[k]}])
\* Files no spec renders any more are for the maintainer to delete.
RemoveStale(specs) ==
    /\ edits < MaxEdits
    /\ \E placed \in {Placed(files, specs)} :
        /\ Places(placed)
        /\ \E stale \in {stale_generated(render(tool, placed), flows)} :
            /\ stale # {}
            /\ flows' = [k \in DOMAIN flows \ stale |-> flows[k]]
            /\ UNCHANGED <<files, scripts, tool>>
            /\ Commit([files |-> {}, flows |-> stale])

-----------------------------------------------------------------------------
(* A run of a mirror workflow at the commit it started on.                    *)

container_ids_from_config(config) ==
    IF config.containers \in {None, <<>>} THEN {Native}
    ELSE {resolved_id(c) : c \in ToSet(config.containers)}
test_names_for_platform(doc, p) ==
    {t.name : t \in ToSet(effective_tests(doc, Declared(doc)[p]))}

\* `pipeline plan` loads the spec; a refusal ends the run before it plans a version.
Start(key) ==
    /\ flowRun = None /\ edits <= MaxRunEdits
    /\ key[1] = "mirror" /\ flows[key].logic = "baked" /\ flows[key].actions = "baked"
    /\ \E spec \in Named(flows[key]) :
        LET loaded == load_spec(files, spec)
        IN  /\ loaded.exit = Ok
            /\ flowRun' = [doc |-> loaded.doc, legs |-> flows[key].body.legs,
                           current |-> flows[key].body.legs = build_matrix(loaded.doc),
                           results |-> [l \in {} |-> None], junit |-> [k \in {} |-> None],
                           pushed |-> FALSE, published |-> {}]
    /\ UNCHANGED repo

\* A leg of a platform the plan does not name skips its tests, and uploads an
\* empty directory.  The first upload of an artifact name wins: the second
\* with the same name is refused.
RunLeg(leg, outcome) ==
    /\ flowRun # None /\ leg \in flowRun.legs \ DOMAIN flowRun.results
    /\ LET key == <<leg.platform, leg.container_id>>
           file == [green |-> outcome = "green", names |-> {t.name : t \in ToSet(leg.tests)}]
       IN  flowRun' = [flowRun EXCEPT
            !.results = Put(@, leg, outcome),
            !.junit = IF \/ outcome = "lost" \/ key \in DOMAIN @
                         \/ leg.platform \notin DOMAIN Declared(flowRun.doc)
                      THEN @ ELSE Put(@, key, file)]
    /\ UNCHANGED repo

\* A variant of evaluate_junit: the tests a leg ran, not the ones the spec declares.
UndeclaredTests(r, p) ==
    \A id \in container_ids_from_config(Declared(r.doc)[p]) :
        <<p, id>> \in DOMAIN r.junit /\ r.junit[<<p, id>>].green
\* AND over the declared containers and over the declared tests.
evaluate_junit(r, p) ==
    \A id \in container_ids_from_config(Declared(r.doc)[p]) :
        /\ <<p, id>> \in DOMAIN r.junit
        /\ r.junit[<<p, id>>].green
        /\ test_names_for_platform(r.doc, p) \subseteq r.junit[<<p, id>>].names

\* The push job runs whatever the legs did, `if: always()`.
PushRun ==
    /\ flowRun # None /\ ~flowRun.pushed /\ DOMAIN flowRun.results = flowRun.legs
    /\ flowRun' = [flowRun EXCEPT
            !.pushed = TRUE,
            !.published = {p \in DOMAIN Declared(flowRun.doc) : evaluate_junit(flowRun, p)}]
    /\ UNCHANGED repo
EndRun == flowRun # None /\ flowRun.pushed /\ flowRun' = None /\ UNCHANGED repo

-----------------------------------------------------------------------------
CiInit ==
    /\ files = FirstFiles /\ scripts = Scripts /\ tool = 0
    /\ \E specs \in SpecSets :
        Places(Placed(files, specs)) /\ flows = render(0, Placed(files, specs))
    /\ guard = IF Guard \in DOMAIN flows THEN [green |-> TRUE, by |-> 0] ELSE None
    /\ woken = {} /\ flowRun = None /\ edits = 0

CiNext ==
    \/ \E path \in DOMAIN Candidates : \E key \in DOMAIN Candidates[path] :
        EditKey(path, key) \/ DropKey(path, key)
    \/ \E path \in DOMAIN Fresh : CreateFile(path)
    \/ \E path \in DOMAIN files : DeleteFile(path)
    \/ \E path \in Scripts : ToggleScript(path)
    \/ \E key \in DOMAIN flows : HandEdit(key) \/ Start(key)
    \/ Upgrade
    \/ \E specs \in SpecSets : Generate(specs) \/ RemoveStale(specs)
    \/ flowRun # None /\ \E leg \in flowRun.legs, outcome \in {"green", "red", "lost"} : RunLeg(leg, outcome)
    \/ PushRun \/ EndRun

CiSpec == CiInit /\ [][CiNext]_ciVars

-----------------------------------------------------------------------------
(* What the theorem about woken workflows supposes of the specs a repository  *)
(* generates from: reject_colliding_slots compares neighbours in path order,  *)
(* so it does not see every two specs of one directory.                       *)
SuffixesTellApart == \A S \in SpecSets : \A p, q \in S : suffix(p) = suffix(q) => p = q

-----------------------------------------------------------------------------
(* A green guard stays true: as long as the last verdict of verify-generated  *)
(* is green and the locked tool is the one that gave it, the specs the guard  *)
(* names load and the committed workflows are what they render, pins apart,   *)
(* with none left over.                                                       *)
GreenIsCurrent ==
    Guard \in DOMAIN flows /\ guard # None /\ guard.green /\ guard.by = tool
        => \E placed \in {Placed(files, Named(flows[Guard]))} :
            Places(placed) /\ \E rendered \in {render(tool, placed)} : check_drift(rendered, flows)

\* The commit changes what the spec says, or a script in its directory.
Concerns(spec) ==
    \/ load_one(files, spec).doc # load_one(files', spec).doc
    \/ \E s \in (scripts \ scripts') \cup (scripts' \ scripts) :
        dir(spec) # <<>> /\ Under(s, dir(spec))

MirrorWakes(spec) == <<"mirror", suffix(spec)>> \in woken'

(* With a green guard, a commit that changes what a spec says, in its own     *)
(* file or in any base it extends, or a script in the spec's directory, runs  *)
(* that spec's mirror workflow.                                               *)
EditWakesItsSpec ==
    [][(Guard \in DOMAIN flows /\ guard # None /\ guard.green /\ guard.by = tool)
        => \A mirror \in Named(flows[Guard]) : Concerns(mirror) => MirrorWakes(mirror)]_ciVars

(* A platform is published only after every container it declares ran every   *)
(* declared test green - when the container ids tell the containers apart,    *)
(* and with the declared image and test when the workflow is current.         *)
PublishedWasTested ==
    flowRun # None => \A p \in flowRun.published :
        LET config == Declared(flowRun.doc)[p]
            Distinct == config.containers \notin {None, <<>>} =>
                \A i, j \in DOMAIN config.containers :
                    resolved_id(config.containers[i]) = resolved_id(config.containers[j]) => i = j
            Green == {l \in DOMAIN flowRun.results : l.platform = p /\ flowRun.results[l] = "green"}
        IN  /\ \A id \in container_ids_from_config(config) :
                \E l \in Green : l.container_id = id
                    /\ test_names_for_platform(flowRun.doc, p) \subseteq {t.name : t \in ToSet(l.tests)}
            /\ flowRun.current /\ Distinct => platform_legs(flowRun.doc, p) \subseteq Green

(* The stronger claim, without the proviso on ids: a published platform has   *)
(* no red container leg.                                                      *)
ContainersAllGreen ==
    flowRun # None => \A l \in DOMAIN flowRun.results :
        l.platform \in flowRun.published => flowRun.results[l] = "green"

\* The tags two variants write, at one version: the name prefixes the version,
\* a default variant also writes the bare tags, and a bare name is its latest.
VariantTags(v) ==
    LET names == (IF v.name = None THEN {} ELSE {v.name}) \cup (IF v.default THEN {""} ELSE {})
    IN  {<<n, "version">> : n \in names} \cup {<<IF n = "" THEN "latest" ELSE n, "latest">> : n \in names}
TagsHaveOneOwner(doc) ==
    Opt(doc, "variants") # None =>
        /\ \A i, j \in DOMAIN doc["variants"] : i # j =>
            VariantTags(doc["variants"][i]) \cap VariantTags(doc["variants"][j]) = {}
        /\ \E v \in ToSet(doc["variants"]) : <<"", "version">> \in VariantTags(v)
LegsMatchWheels(doc) ==
    is_env(doc["source"]) /\ build_matrix(doc) # {} =>
        {l.platform : l \in build_matrix(doc)} = {base_platform_key(p) : p \in DOMAIN doc["wheels"]}
LibcClaimsTested(doc) ==
    \A l \in build_matrix(doc) :
      l.platform.feats \cap {"libc.glibc", "libc.musl"} # {} /\ l.image # None =>
        libc_family_feature(l.libc) \in l.platform.feats
\* What signing resolves from the environment is in the push and patch steps'
\* environment, private material from the secrets, and a keyless signer may
\* ask for its identity token without losing what the job already needed.
SignMaterialArrives(doc) ==
    Opt(doc, "sign") # None =>
        /\ \A r \in SignVars(doc["sign"]) \cup SignSecrets(doc["sign"]) :
            r # None /\ r.form = "env" => r.text \in DOMAIN render_sign_env(doc)
        /\ \A r \in SignSecrets(doc["sign"]) :
            r # None => r.form # "number" /\ (r.form = "env" => render_sign_env(doc)[r.text] = "secrets")
        /\ doc["sign"].keyless # None =>
            \A granted \in {render_push_permissions(doc), render_patch_permissions(doc)} :
                /\ {"id-token:write", "contents:read"} \subseteq granted
                /\ Ghcr(doc) => "packages:write" \in granted

(* What the loader accepts is fit to generate from, wherever in the chain its *)
(* keys came from: no two variants write one tag, an env spec's legs and its  *)
(* wheels name the same platforms, a container with an image tests the libc   *)
(* its platform claims, and signing finds its material.                       *)
AcceptedIsSound ==
    \A spec \in DOMAIN files :
        LET one == load_one(files, spec)
        IN  one.exit = Ok =>
                /\ TagsHaveOneOwner(one.doc)
                /\ LegsMatchWheels(one.doc)
                /\ LibcClaimsTested(one.doc)
                /\ SignMaterialArrives(one.doc)

=============================================================================
