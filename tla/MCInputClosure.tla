--------------------------- MODULE MCInputClosure ---------------------------
(***************************************************************************)
(* Two entries, `A' (module a) and `B' (module b), a helper module, one    *)
(* harness file, and data of every kind: v and w, named or read at will;   *)
(* catalog, whose content is the path of v or w; ref, pinned; json, which  *)
(* is imported; dir, a directory; red, the red-team file of both.          *)
(***************************************************************************)
EXTENDS InputClosure, TLC

CONSTANTS a, b, helper, bench, v, w, catalog, ref, json, dir, red, one, two, pin

MCEntries      == {"A", "B"}
MCEntryModules == {a, b}
MCModuleOf     == [A |-> a, B |-> b]
MCRedTeam      == [e \in MCEntries |-> red]
MCPin          == (ref :> pin)
MCContents     == {one, two, pin, v, w}

Source(imports, names, top, load, follows) ==
    [label |-> "", code |-> [imports |-> imports, names |-> names, top |-> top,
                             load |-> load, follows |-> follows]]
Relabelled(s) == [s EXCEPT !.label = "renamed"]

(* The modules of A: reads a file that it names; reads one that another     *)
(* names the path of, naming it or not; reads a pinned file; lists a        *)
(* directory; reads at import, itself or by the helper.                     *)
ReadsNamed   == Source({helper, json}, {v}, {}, {v}, {})
FollowsNamed == Source({helper}, {catalog, v}, {}, {catalog}, {catalog})
Follows      == Source({helper}, {catalog}, {}, {catalog}, {catalog})
ReadsPinned  == Source({helper}, {ref}, {}, {ref}, {})
Lists        == Source({helper}, {dir}, {}, {dir}, {})
ReadsAtTop   == Source({helper}, {w}, {[path |-> w, by |-> Itself]}, {}, {})
HasRead      == Source({helper}, {w}, {[path |-> w, by |-> helper]}, {}, {})

(* B: imports the helper only, or names and reads w.                        *)
UsesHelper == Source({helper}, {}, {}, {}, {})
Alone      == Source({}, {w}, {}, {w}, {})

(* The helper: reads nothing; reads w at import, which it names or not.     *)
Quiet        == Source({}, {}, {}, {}, {})
ReadsUnnamed == Source({}, {}, {[path |-> w, by |-> Itself]}, {}, {})
ReadsOwn     == Source({}, {w}, {[path |-> w, by |-> Itself]}, {}, {})

BenchCode  == Source({helper, a, b}, {}, {}, {}, {})
BenchNames == Source({a, b}, {v}, {}, {}, {})

AVersions == {ReadsNamed, Relabelled(ReadsNamed), FollowsNamed, Follows, ReadsPinned, Lists,
              ReadsAtTop, HasRead}

MCSources == AVersions \cup {UsesHelper, Alone, Quiet, ReadsUnnamed, ReadsOwn, BenchCode, BenchNames}

MCVersions(p) ==
    CASE p = a            -> AVersions
      [] p = b            -> {UsesHelper, Alone}
      [] p = helper       -> {Quiet, ReadsUnnamed, ReadsOwn, Missing}
      [] p = bench        -> {BenchCode, BenchNames}
      [] p = catalog      -> {v, w}
      [] p = ref          -> {pin, one, Missing}
      [] p = w            -> {one, two, Missing}
      [] p = red          -> {Missing, one}
      [] p \in {v, json, dir} -> {one, two}

MCInitTrees ==
    {(a :> src) @@ (b :> UsesHelper) @@ (helper :> Quiet) @@ (bench :> BenchCode)
       @@ (v :> one) @@ (w :> one) @@ (catalog :> v) @@ (ref :> pin)
       @@ (json :> one) @@ (dir :> one) @@ (red :> Missing) : src \in AVersions}
=============================================================================
