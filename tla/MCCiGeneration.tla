--------------------------- MODULE MCCiGeneration ---------------------------
(* A repository with a root spec, a nested one, the base both extend and the  *)
(* base that one extends in turn.                                             *)
EXTENDS CiGeneration, TLC

\* Words in alphabetical order: base.yml, far, mirror.yml,
\* org.yml, py, smoke.star, tests.
BaseYml == <<1>>
Far == <<2>>
MirrorYml == <<3>>
Org == <<4>>
Py == <<5>>
Smoke == <<6>>
Tests == <<7>>

Root == <<MirrorYml>>
Nested == <<Py, MirrorYml>>
Base == <<BaseYml>>
Deep == <<Org>>
Above == <<Far, BaseYml>>
RootScript == <<Tests, Smoke>>
NestedScript == <<Py, Smoke>>

MCDefaultSpec == Root
MCRootTrees == {<<Tests>>}
MCOutside == {Above}
MCScripts == {RootScript, NestedScript}
MCSpecSets == {{Root}, {Nested}, {Root, Nested}}

-----------------------------------------------------------------------------
P(os, feats) == [os |-> os, arch |-> "amd64", variant |-> None, feats |-> feats]
Linux == P("linux", {})
Musl == P("linux", {"libc.musl"})
Windows == P("windows", {})
Container(base, id) == [image |-> [base |-> base, tag |-> "1"], id |-> id, setup |-> None, shell |-> None]
Platform(containers, tests) ==
    [runner |-> "ok", containers |-> containers, tests |-> tests, min |-> None, max |-> None,
     exclude |-> {}, shell |-> None]
Test(name, kinds, body) == [name |-> name, kinds |-> kinds, body |-> body]
Env(name) == [form |-> "env", text |-> name]
Literal(text) == [form |-> "literal", text |-> text]
Keyless(token) == [fulcio |-> Env("URL"), rekor |-> None, identity_token |-> token, shape |-> "map"]
Key(passphrase, rekor) == [shape |-> "map", ref |-> Env("KEY"), passphrase |-> passphrase, rekor |-> rekor]
Sign(keyless, key) == [shape |-> "map", keyless |-> keyless, key |-> key]
Variant(name, default) == [name |-> name, default |-> default, flaws |-> {}, bin_scan |-> None]
Announce(fork) ==
    [package |-> "ok", schedule |-> None, fork |-> fork,
     index_repo |-> [host |-> None, nested |-> FALSE, bad |-> FALSE], forge |-> None, transport |-> None]

Archive == [type |-> "github_release", flaws |-> {}, modes |-> {}]
Pylock == [type |-> "pylock", flaws |-> {}, modes |-> {}]
Python == [flaws |-> {}, lock |-> FALSE]

Shared ==
    [k \in {"tests", "extends", "platforms"} |->
        CASE k = "tests" -> <<Test("t", {"command"}, None)>>
          [] k = "extends" -> Deep
          [] OTHER -> Linux :> Platform(<<Container("ubuntu", None), Container("alpine", None)>>, None)]
Organisation == [k \in {"target"} |-> [registry |-> "ghcr.io", repository |-> "o"]]
RootDoc ==
    [k \in {"name", "source", "extends", "assets"} |->
        CASE k = "name" -> "root" [] k = "source" -> Archive [] k = "extends" -> Base [] OTHER -> "ok"]
NestedDoc ==
    [k \in {"name", "source", "extends", "wheels", "python", "platforms"} |->
        CASE k = "name" -> "nested" [] k = "source" -> Pylock [] k = "extends" -> Base
          [] k = "python" -> Python
          [] k = "wheels" -> (Musl :> None)
          [] OTHER -> Linux :> Platform(None, <<Test("s", {"script"}, NestedScript)>>)]
Holds(doc) == [parses |-> TRUE, doc |-> doc]
MCFirstFiles == (Root :> Holds(RootDoc)) @@ (Nested :> Holds(NestedDoc)) @@ (Base :> Holds(Shared))
                @@ (Deep :> Holds(Organisation))
\* One platform whose two containers are given the same id.
SharedIds ==
    Root :> Holds(("platforms" :> (Linux :> Platform(<<Container("ubuntu", <<"x">>), Container("alpine", <<"x">>)>>, None)))
                  @@ ("extends" :> Base) @@ RootDoc)
SharedIdFiles == SharedIds @@ MCFirstFiles
MCFresh == (Base :> Shared) @@ (Above :> Shared)

-----------------------------------------------------------------------------
MCCandidates ==
    (Root :> [k \in {"extends", "variants", "assets", "cascade", "announce", "sign", "platforms",
                     "ocx_install", "versions", "password", "tests"} |->
        CASE k = "extends" -> {Above, Root, Nested}
          [] k = "variants" -> {<<Variant("slim", TRUE), Variant(None, FALSE)>>,
                                <<Variant("slim", TRUE), Variant("full", FALSE)>>,
                                <<Variant("full", TRUE), Variant("full", FALSE)>>,
                                <<Variant("full", TRUE), Variant("latest", FALSE)>>,
                                <<Variant("full", FALSE)>>}
          [] k = "assets" -> {"bad"}
          [] k = "cascade" -> {[enabled |-> FALSE, schedule |-> None], [enabled |-> TRUE, schedule |-> "cron"]}
          [] k = "announce" -> {Announce(None), Announce([host |-> "gitlab.com", nested |-> FALSE, bad |-> FALSE])}
          [] k = "sign" -> {Sign(Keyless(None), None), Sign(None, Key(Literal("raw"), None)),
                            Sign(None, Key([form |-> "number", text |-> "raw"], None))}
          [] k = "platforms" -> {Musl :> Platform(<<Container("ubuntu", None)>>, None),
                                 Musl :> Platform(<<Container("alpine", None)>>, None),
                                 Linux :> Platform(<<Container("ubuntu", <<"x">>), Container("alpine", <<"x">>)>>, None),
                                 Linux :> Platform(None, <<Test("t", {"command", "script"}, RootScript)>>)}
          [] k = "tests" -> {<<Test("t", {"command"}, None), Test("u", {"script"}, RootScript)>>}
          [] k = "versions" -> {[min |-> None, max |-> None, poll_interval |-> "cron"]}
          [] OTHER -> {"bad"}])
    @@ (Nested :> [k \in {"wheels", "allow_manual_edits", "platforms", "target"} |->
        CASE k = "wheels" -> {Linux :> {"manylinux"}, Windows :> None, (Linux :> None) @@ (Musl :> None)}
          [] k = "allow_manual_edits" -> {TRUE}
          [] k = "target" -> {[registry |-> "other", repository |-> "o"]}
          [] OTHER -> {(Linux :> Platform(None, None)) @@ (Windows :> Platform(None, None))}])
    @@ (Deep :> [k \in {"target"} |-> {[registry |-> "other", repository |-> "o"]}])
    @@ (Base :> [k \in {"extends", "sign", "allow_manual_edits", "platforms"} |->
        CASE k = "extends" -> {Nested}
          [] k = "sign" -> {Sign(Keyless(Env("TOKEN")), None), Sign(None, Key(Env("PASS"), Env("PASS")))}
          [] k = "allow_manual_edits" -> {TRUE}
          [] OTHER -> {Linux :> Platform(<<Container("fedora", None)>>, None)}])

\* The specs of this instance are as the theorem about CiGeneration supposes.
ASSUME CiHypothesis == SuffixesTellApart
=============================================================================
