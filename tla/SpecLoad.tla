------------------------------ MODULE SpecLoad ------------------------------
(* How a spec file becomes a program's instructions: the `extends:` chain is *)
(* walked, the files are merged with the nearest winning, and the merged     *)
(* document passes four gates before any command acts on it.                 *)
(* Source: crates/ocx_mirror_spec/src/{load,prescan,validate,lib,wheels,     *)
(* source,forge,platforms_config,platform_keys,...}.rs.                      *)
(*                                                                           *)
(* A document is a function from the top-level keys it writes to values.  A  *)
(* value keeps the structure that some rule or reader tells apart; where a   *)
(* rule is about one scalar's spelling, the value carries its class ("ok",   *)
(* "bad", ...) and the rule reads the class.                                 *)
EXTENDS Integers, Sequences, FiniteSets, SequencesExt, Optional

-----------------------------------------------------------------------------
(* The `extends:` chain and the merge.                                       *)

\* Exit codes of crates/ocx_mirror_error.
Ok == 0
UsageError == 64
DataError == 65
NotFound == 79

\* files[p] is what the file at p holds: [parses |-> BOOLEAN, doc |-> document];
\* a path outside the domain does not exist.  A document's "extends" is the
\* path it names, None when the value is not a string.
Follow(files, spec, walk) ==
    LET doc == files[walk.at].doc
        Close(code) == [walk EXCEPT !.open = FALSE, !.exit = code]
    IN  IF "extends" \notin DOMAIN doc THEN Close(Ok)
        ELSE IF \/ doc["extends"] = None
                \/ doc["extends"] \notin DOMAIN files
                \/ doc["extends"] \in {spec} \cup ToSet(walk.chain)
                \/ ~files[doc["extends"]].parses
             THEN Close(DataError)
             ELSE [walk EXCEPT !.chain = Append(@, doc["extends"]),
                               !.at = doc["extends"]]

\* The walk after each of its first steps.
Walk(files, spec, last) ==
    LET walk[n \in 0 .. last] ==
            IF n = 0 THEN [chain |-> <<>>, at |-> spec, open |-> TRUE, exit |-> Ok]
            ELSE IF walk[n - 1].open THEN Follow(files, spec, walk[n - 1])
            ELSE walk[n - 1]
    IN  walk

\* [chain |-> bases, nearest first, exit |-> code].  Each step adds a file or
\* ends, so the walk is over after one step per file.
resolve_extends_chain(files, spec) ==
    LET last == Cardinality(DOMAIN files) + 1
    IN  IF ~files[spec].parses THEN [chain |-> <<>>, exit |-> DataError]
        ELSE LET end == Walk(files, spec, last)[last]
             IN  [chain |-> end.chain, exit |-> end.exit]

\* Of documents, nearest first: a key's value is that of the nearest that writes it.
shallow_merge(docs) ==
    [k \in UNION {DOMAIN docs[i] : i \in DOMAIN docs} |->
        LET nearest == CHOOSE i \in DOMAIN docs :
                /\ k \in DOMAIN docs[i]
                /\ \A j \in DOMAIN docs : k \in DOMAIN docs[j] => i <= j
        IN  docs[nearest][k]]

\* [exit, doc, chain] of one spec path.
resolve_and_merge(files, spec) ==
    IF spec \notin DOMAIN files THEN [exit |-> NotFound, doc |-> <<>>, chain |-> <<>>]
    ELSE LET walked == resolve_extends_chain(files, spec)
             layers == <<spec>> \o walked.chain
             merged == shallow_merge([i \in DOMAIN layers |-> files[layers[i]].doc])
         IN  IF walked.exit # Ok
             THEN [exit |-> walked.exit, doc |-> <<>>, chain |-> walked.chain]
             ELSE [exit |-> Ok, chain |-> walked.chain,
                   doc |-> [k \in DOMAIN merged \ {"extends"} |-> merged[k]]]

\* What a key holds when a file writes it: a list of variants, and for each platform
\* no containers, an empty list of them or some.
ValueOK(key, value) ==
    /\ key # "extends" => value # None
    /\ key = "variants" => IsFiniteSet(DOMAIN value)
    /\ key = "platforms" => \A p \in DOMAIN value :
            value[p].containers \in {None, <<>>} \/ DOMAIN value[p].containers # {}
DocumentOK(doc) == \A key \in DOMAIN doc : ValueOK(key, doc[key])

Get(doc, key, default) == IF key \in DOMAIN doc THEN doc[key] ELSE default
Opt(doc, key) == Get(doc, key, None)

-----------------------------------------------------------------------------
(* The raw document: refusals that come before deserialization.              *)

CREDENTIAL_DENY_LIST ==
    {"password", "token", "username", "auth", "credentials", "secret", "api_key"}

\* `expected_kind` is None for a mirror.yml.  A key below the top level is
\* reported in the value of its block: nested |-> the keys it holds.
pre_scan(doc, expected_kind) ==
    IF \/ DOMAIN doc \cap CREDENTIAL_DENY_LIST # {}
       \/ Get(doc, "nested", {}) \cap CREDENTIAL_DENY_LIST # {}
       \/ expected_kind # None /\ Get(doc, "kind", "") # expected_kind
       \/ \E s \in Get(doc, "sources", {}) : s.userinfo
    THEN UsageError ELSE Ok

\* A `sign:` value is [shape |-> "null" | "scalar" | "map", keyless, key]; each
\* mode is None, [shape |-> "null"], or a record of references.  A reference is
\* None or [form |-> "literal" | "env" | "file" | "number", text |-> its class].
refuse_raw_sign_shapes(doc) ==
    LET sign == Opt(doc, "sign")
        Null(m) == m # None /\ m.shape = "null"
        NotString(r) == r # None /\ r.form = "number"
    IN  IF /\ sign # None
           /\ \/ sign.shape = "null"
              \/ /\ sign.shape = "map"
                 /\ \/ Null(sign.keyless) \/ Null(sign.key)
                    \/ sign.keyless # None /\ NotString(sign.keyless.identity_token)
                    \/ sign.key # None /\ NotString(sign.key.passphrase)
                    \/ sign.key # None /\ sign.key.shape = "map" /\ sign.key.ref = None
        THEN UsageError ELSE Ok

KnownKeys ==
    {"name", "source", "assets", "variants", "wheels", "wheel_scope", "python", "metadata",
     "bin_scan", "libc_lint", "asset_type", "build_timestamp", "cascade", "versions",
     "skip_prereleases", "verify", "concurrency", "tests", "platforms", "catalog", "ocx_mirror",
     "notify", "announce", "sign", "annotations", "target", "allow_manual_edits", "nested"}

\* `deny_unknown_fields`, the required keys, and the shapes serde refuses.
Deserializes(doc) ==
    /\ DOMAIN doc \subseteq KnownKeys
    /\ {"name", "source", "target"} \subseteq DOMAIN doc
    /\ Opt(doc, "sign") # None => doc["sign"].shape # "scalar"
    /\ doc["source"].type = "url_index" => Cardinality(doc["source"].modes) = 1

-----------------------------------------------------------------------------
(* The usage gate: refused with exit 64 before any structural error.         *)

policy_check_notify(notify) ==
    notify # None
        => /\ notify.webhook_secret \notin {"url", "discord"}
           /\ notify.user_id \notin {"url", "mention"}

\* `allow` says whether a literal may stand there (RefClass::Plain).
check_sign_ref(ref, plain) ==
    ref # None
        => \/ ref.form = "literal" /\ ref.text \notin {"empty", "armour"} /\ plain
           \/ ref.form = "env" /\ ref.text \notin {"ungrammatical", "scrubbed"}
           \/ ref.form = "file" /\ ref.text # "empty"

check_keyless(keyless) ==
    /\ check_sign_ref(keyless.fulcio, TRUE)
    /\ check_sign_ref(keyless.rekor, TRUE)
    /\ check_sign_ref(keyless.identity_token, FALSE)

\* The string form of `key:` carries nothing but the reference.
check_key(key) ==
    /\ check_sign_ref(key.ref, TRUE)
    /\ check_sign_ref(key.passphrase, FALSE)
    /\ check_sign_ref(key.rekor, TRUE)

validate_sign_config(sign) ==
    sign # None
        => \/ sign.keyless # None /\ sign.key = None /\ check_keyless(sign.keyless)
           \/ sign.keyless = None /\ sign.key # None /\ check_key(sign.key)

-----------------------------------------------------------------------------
(* The structural gate: MirrorSpec::validate returns a list of errors, here  *)
(* the set of the rules that are broken.                                     *)

Errors(rules) == {r \in DOMAIN rules : rules[r]}  \* the rules whose condition holds

validate_cron(cron) == cron # None /\ cron # "cron"

env_type_name(source) == IF source.type \in {"pylock", "pypi"} THEN source.type ELSE None
is_env(source) == env_type_name(source) # None

\* source.flaws holds the spellings a rule refuses.
Source_validate(source) ==
    {f \in source.flaws :
        CASE f = "url_rewrite" -> is_env(source)       \* present at all
          [] f = "bad_rewrite" -> ~is_env(source)      \* not an http(s) prefix, or with userinfo
          [] f = "tag_pattern" -> source.type = "github_release"
          [] f = "command" -> source.type = "url_index" /\ "generator" \in source.modes
          [] f = "path" -> source.type = "pylock"
          [] f = "package" -> source.type = "pypi"
          [] f = "index" -> source.type = "pypi"}

\* A platform key is [os, arch, variant, feats]; one that does not parse has os "bogus".
ParsesAsPlatform(p) == p.os # "bogus"
validate_platform_keys(keys) == {"platform_key" : p \in {k \in keys : ~ParsesAsPlatform(k)}}
base_platform_key(p) == [p EXCEPT !.variant = None, !.feats = {}]

\* wheels: platform key -> None (the key's own default) or a set of prefixes, where "bad" is
\* a malformed entry and "twice" one that is given again.
WheelPatterns_validate(wheels) ==
    UNION {Errors(
        LET filter == wheels[p]
            Manylinux == filter # None /\ "manylinux" \in filter
            Musllinux == filter # None /\ "musllinux" \in filter
        IN  [any |-> p.os = "any",
             variant |-> p.variant # None,
             wasm |-> p.os = "wasip1",
             one_libc |-> Cardinality(p.feats) > 1,
             feature |-> ~(p.feats \subseteq {"libc.glibc", "libc.musl"}),
             linux_only |-> p.feats # {} /\ p.os # "linux",
             filter_empty |-> filter = {},
             filter_entry |-> filter # None /\ "bad" \in filter,
             filter_duplicate |-> filter # None /\ "twice" \in filter,
             mixed |-> Manylinux /\ Musllinux,
             contradicts |-> \/ "libc.glibc" \in p.feats /\ Musllinux
                             \/ "libc.musl" \in p.feats /\ Manylinux]) : p \in DOMAIN wheels}

\* Which wheels a key admits when it names no filter of its own.
effective_filter(wheels, p) ==
    IF wheels[p] # None THEN wheels[p]
    ELSE CASE p.os = "linux" /\ "libc.musl" \in p.feats -> {"musllinux", "any"}
           [] p.os = "linux" /\ "libc.glibc" \in p.feats -> {"manylinux", "any"}
           [] p.os = "linux" /\ p.feats = {} -> {"any"}
           [] p.os = "darwin" -> {"macosx", "any"}
           [] p.os = "windows" -> {"win", "any"}
           [] OTHER -> {"wasi"}

validate_wheels_platform_coverage(wheels, platforms) ==
    LET legs == IF platforms = None THEN {} ELSE DOMAIN platforms
        covered == {base_platform_key(p) : p \in DOMAIN wheels}
    IN  Errors([undeclared |-> legs # {} /\ ~(covered \subseteq legs),
                uncovered |-> ~(legs \subseteq covered)])

\* variants: a sequence of [name, default, flaws]. A name must begin with a letter.
validate_variants(variants) ==
    IF variants = <<>> THEN {"variants_empty"}
    ELSE Errors(
        [one_default |-> Cardinality({i \in DOMAIN variants : variants[i].default}) # 1,
         name |-> \E v \in ToSet(variants) : v.name \in {"Bad_Name", ""},
         reserved |-> \E v \in ToSet(variants) : v.name = "latest",
         unnamed |-> \E v \in ToSet(variants) : v.name = None /\ ~v.default,
         duplicate |-> \E i, j \in DOMAIN variants : i # j /\ variants[i].name = variants[j].name,
         assets |-> \E v \in ToSet(variants) : "regex" \in v.flaws,
         variant_metadata |-> \E v \in ToSet(variants) : "metadata" \in v.flaws])

validate_assets_or_variants(doc) ==
    LET assets == Opt(doc, "assets") variants == Opt(doc, "variants") wheels == Opt(doc, "wheels")
    IN  IF is_env(doc["source"])
        THEN Errors([env_assets |-> assets # None, env_variants |-> variants # None,
                     env_wheels |-> wheels = None])
             \cup (IF wheels = None THEN {}
                   ELSE Errors([wheels_empty |-> DOMAIN wheels = {}])
                        \cup WheelPatterns_validate(wheels)
                        \cup validate_wheels_platform_coverage(wheels, Opt(doc, "platforms")))
        ELSE Errors([archive_wheels |-> wheels # None,
                     both |-> assets # None /\ variants # None,
                     neither |-> assets = None /\ variants = None,
                     regex |-> assets = "bad" /\ variants = None])
             \cup (IF assets = None /\ variants # None THEN validate_variants(variants) ELSE {})

\* A metadata file gives the scan a directory, or says what the binaries are.
\* metadata: [missing, scannable, lists_binaries, keys].
validate_scannable(metadata, mode) ==
    /\ ~metadata.missing
    /\ ~(metadata.lists_binaries /\ mode = "auto")
    /\ ~metadata.scannable

\* variants inherit the top-level mode unless they set their own.
effective_bin_scans(doc) ==
    LET top == Get(doc, "bin_scan", "off")
    IN  IF Opt(doc, "variants") = None THEN {top}
        ELSE {IF v.bin_scan = None THEN top ELSE v.bin_scan : v \in ToSet(doc["variants"])}

\* tests: a sequence of [name, kinds, body].
validate_tests(tests) ==
    IF tests = <<>> THEN {"tests_empty"}
    ELSE Errors(
        [test_name |-> \E t \in ToSet(tests) : t.name = "bad name",
         test_duplicate |-> \E i, j \in DOMAIN tests : i # j /\ tests[i].name = tests[j].name,
         test_kind |-> \E t \in ToSet(tests) : Cardinality(t.kinds) # 1])

\* A version bound is None or [kind |-> "plain" | "stamped" | "bad", n]; bounds
\* compare by release core.
BadBound(v) == v # None /\ v.kind # "plain"
Inverted(lo, hi) == lo # None /\ hi # None /\ lo.kind # "bad" /\ hi.kind # "bad" /\ lo.n >= hi.n

validate_exclude_entry(entry) ==
    LET ranged == entry.min # None \/ entry.max # None
    IN  Errors([exclude_nothing |-> entry.version = None /\ ~ranged,
                exclude_both |-> entry.version # None /\ ranged,
                exclude_version |-> BadBound(entry.version) \/ BadBound(entry.min) \/ BadBound(entry.max),
                exclude_inverted |-> Inverted(entry.min, entry.max)])

\* An image is [base, tag]; its name is all that says which shell and libc it has.
infer_shell_from_image(image) ==
    CASE image.base \in {"ubuntu", "debian", "fedora", "rocky", "opensuse"} -> "bash"
      [] image.base = "alpine" -> "sh"
      [] OTHER -> None
infer_libc_from_image(image) == IF image.base = "alpine" THEN "musl" ELSE "gnu"
libc_family_feature(family) == IF family = "musl" THEN "libc.musl" ELSE "libc.glibc"

\* setup: None or a sequence of "ok" | "blank" | "newline" | "backslash".
validate_container_setup(container) ==
    IF container.setup = None THEN {}
    ELSE Errors([setup_empty |-> container.setup = <<>>,
                 setup_command |-> \E c \in ToSet(container.setup) : c # "ok"])

\* A variant of validate_container: a libc claim is not held against the image.
LibcUnchecked(p, container) ==
    Errors([shell |-> container.shell = None /\ infer_shell_from_image(container.image) = None])
        \cup validate_container_setup(container)
validate_container(p, container) ==
    LET declared == {f \in p.feats : f \in {"libc.glibc", "libc.musl"}}
        libc == libc_family_feature(infer_libc_from_image(container.image))
    IN  Errors([shell |-> container.shell = None /\ infer_shell_from_image(container.image) = None,
                libc |-> ParsesAsPlatform(p) /\ declared # {} /\ libc \notin declared])
        \cup validate_container_setup(container)

\* platforms: key -> [runner, containers, tests, min, max, exclude, shell].  A
\* platform's own `tests:` are not looked at.
validate_platforms(platforms) ==
    UNION {LET config == platforms[p] IN
        Errors([platform_key |-> ~ParsesAsPlatform(p),
                runner |-> config.runner # "ok",
                window |-> BadBound(config.min) \/ BadBound(config.max),
                window_inverted |-> Inverted(config.min, config.max),
                no_containers |-> config.containers = <<>>,
                linux_containers |-> config.containers \notin {None, <<>>} /\ p.os # "linux"])
        \cup (UNION {validate_exclude_entry(e) : e \in config.exclude})
        \cup (IF config.containers = None THEN {}
              ELSE UNION {validate_container(p, c) : c \in ToSet(config.containers)})
        : p \in DOMAIN platforms}

validate_notify_config(notify) ==
    Errors([webhook_secret |-> notify.webhook_secret # "NAME",
            user_id |-> notify.user_id \notin {None, "snowflake"}])

\* A repository coordinate is [host, nested], or "bad" when it does not parse.
from_host(host) ==
    CASE host \in {None, "github.com"} -> "github" [] host = "gitlab.com" -> "gitlab" [] OTHER -> None
canonical_host(kind) == IF kind = "github" THEN "github.com" ELSE "gitlab.com"
HostOn(kind, coordinate) == IF coordinate.host = None THEN canonical_host(kind) ELSE coordinate.host
ForgeOf(announce) ==
    IF announce.forge # None THEN announce.forge ELSE from_host(announce.index_repo.host)
serves_transport(kind, transport) == ~(kind = "github" /\ transport = "git")

\* Misspellings first; the forge rules need all four parsed, and stop at the first.
validate_announce_config(announce) ==
    LET spelling == Errors([announce_package |-> announce.package # "ok",
                            announce_schedule |-> validate_cron(announce.schedule),
                            fork |-> announce.fork # None /\ announce.fork.bad,
                            index_repo |-> announce.index_repo.bad,
                            forge |-> announce.forge \notin {None, "github", "gitlab"},
                            transport |-> announce.transport \notin {None, "api", "git"}])
        kind == ForgeOf(announce)
        coordinates == {announce.index_repo} \cup (IF announce.fork = None THEN {} ELSE {announce.fork})
    IN  spelling \cup
        IF spelling \cap {"fork", "index_repo", "forge", "transport"} # {} THEN {}
        ELSE IF announce.transport = "git" /\ announce.fork # None THEN {"git_fork"}
        ELSE IF kind = None THEN {"unknown_forge"}
        ELSE IF kind = "github" /\ \E c \in coordinates : c.nested THEN {"nested_namespace"}
        ELSE IF announce.fork # None /\ HostOn(kind, announce.fork) # HostOn(kind, announce.index_repo)
             THEN {"fork_host"}
        ELSE IF ~serves_transport(kind, announce.transport) THEN {"git_transport"} ELSE {}

\* python: [flaws, lock]; versions: [min, max, poll_interval]; catalog: the files missing.
MirrorSpec_validate(doc) ==
    LET source == doc["source"]
        metadata == Opt(doc, "metadata")
        python == Opt(doc, "python")
        Given(key, Validate(_)) == IF Opt(doc, key) = None THEN {} ELSE Validate(doc[key])
        scans == {m \in effective_bin_scans(doc) : m # "off"}
    IN  Source_validate(source)
        \cup validate_assets_or_variants(doc)
        \cup Errors([python_lock |-> python # None /\ python.lock /\ source.type = "pylock",
                     python_required |-> python = None /\ is_env(source),
                     env_metadata |-> metadata # None /\ is_env(source),
                     metadata_file |-> metadata # None /\ ~is_env(source) /\ metadata.missing,
                     env_bin_scan |-> is_env(source) /\ Get(doc, "bin_scan", "off") # "off",
                     bin_scan |-> /\ metadata # None
                                  /\ Opt(doc, "assets") # None \/ Opt(doc, "variants") # None
                                  /\ \E m \in scans : validate_scannable(metadata, m),
                     catalog |-> Get(doc, "catalog", {}) # {},
                     cascade |-> Opt(doc, "cascade") # None /\ validate_cron(doc["cascade"].schedule),
                     rev |-> Get(doc, "ocx_mirror", "ok") # "ok",
                     annotations |-> Get(doc, "annotations", {}) \cap {"blank", "equals"} # {}])
        \cup Given("python", LAMBDA p : p.flaws)
        \cup Given("versions", LAMBDA v : Errors([versions_bound |-> "bad" \in {v.min, v.max},
                                                  poll_interval |-> validate_cron(v.poll_interval)]))
        \cup Given("tests", validate_tests)
        \cup Given("platforms", validate_platforms)
        \cup Given("asset_type", LAMBDA a : validate_platform_keys(a.keys))
        \cup Given("metadata", LAMBDA m : validate_platform_keys(m.keys))
        \cup Given("notify", validate_notify_config)
        \cup Given("announce", validate_announce_config)

\* What a merged document is refused for, the first gate that refuses it first.
Gates(doc) ==
    IF pre_scan(doc, None) # Ok \/ refuse_raw_sign_shapes(doc) # Ok THEN UsageError
    ELSE IF ~Deserializes(doc) THEN DataError
    ELSE IF \/ ~policy_check_notify(Opt(doc, "notify"))
            \/ ~validate_sign_config(Opt(doc, "sign")) THEN UsageError
    ELSE IF MirrorSpec_validate(doc) # {} THEN DataError ELSE Ok

\* The whole loader: [exit, doc, chain].
load_spec(files, spec) ==
    LET merged == resolve_and_merge(files, spec)
    IN  [merged EXCEPT !.exit = IF merged.exit # Ok THEN merged.exit ELSE Gates(merged.doc)]

=============================================================================
