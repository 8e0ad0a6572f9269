---------------------------- MODULE MCFederation -----------------------------
(***************************************************************************)
(* Federation, HomeOrgDiscovery and MetadataPolicy for TLC: a subject under*)
(* an intermediate authority of one trust anchor and directly under        *)
(* another; collections with OPs that have to be left out, refused or      *)
(* promoted; and two policies in a row, with up to two operators for one   *)
(* parameter, next to a second parameter with few choices.                 *)
(***************************************************************************)
EXTENDS HomeOrgDiscovery, MetadataPolicy

Hierarchy == [e \in Entity |-> CASE e = "ta1" -> {"mid"}
                                 [] e = "ta2" -> {"leaf"}
                                 [] e = "mid" -> {"leaf"}
                                 [] OTHER -> {}]

U(scheme, fragment, query) ==
    [scheme |-> scheme, loopback |-> FALSE, parses |-> TRUE, clean |-> TRUE,
     userinfo |-> FALSE, fragment |-> fragment, query |-> query]

Https == U("https", FALSE, "none")
Urls == {Https, U("http", FALSE, "none")}

Op(name, slash) == [name |-> name, slash |-> slash, url |-> Https]
BadOp == [name |-> "a", slash |-> FALSE, url |-> U("http", FALSE, "none")]
Ids == {Op("a", FALSE), Op("b", FALSE), Op("c", FALSE), Op("c", TRUE), BadOp}

\* A URI whose query has names of its own, and others that must be refused.
Uri(e, url, iss, target) ==
    [owner |-> e, url |-> url, own |-> [iss |-> iss, target_link_uri |-> target]]

LoginUris ==
    [e \in Entity |->
        IF e \in {"leaf", "out"}
        THEN { Uri(e, U("https", FALSE, "plain"), {}, {}),
               Uri(e, U("https", FALSE, "plain"), {Op("b", FALSE)}, {"other"}),
               Uri(e, U("https", TRUE, "none"), {}, {}),
               Uri(e, U("http", FALSE, "none"), {}, {}) }
        ELSE {}]

\* Calls that leave iss out, or name a good or a bad OP, with any target.
Strays == [iss : {{}, {Op("a", FALSE)}, {BadOp}}, target_link_uri : {{}, {"other"}}]

Entry(id, types) == [id |-> id, types |-> types]
OpEntry(o) == Entry({o}, {"openid_provider"})

Bodies == { <<OpEntry(Op("a", FALSE)), Entry({Op("b", FALSE)}, {"openid_relying_party"}),
              OpEntry(Op("b", FALSE)), Entry({}, {"openid_provider"}),
              OpEntry(Op("c", TRUE)), OpEntry(Op("c", FALSE))>>,
            <<OpEntry(BadOp), OpEntry(Op("c", FALSE))>>,
            <<>> }

Requests ==
    [rp : {"leaf", "out"}, hint : {{}, {Op("c", FALSE)}, {BadOp}}, target : {{}, {""}, {"link"}}]

\* Ops leaves out what is not an OP, and keeps the order of the rest.
ASSUME OpsKeepOrder ==
    \A b \in Bodies :
        Ops(b) = [i \in DOMAIN SelectSeq(b, Advertises) |-> SelectSeq(b, Advertises)[i].id]

\* Discoveries are looked at in the federation's first second: they read no more
\* of it than what is published and what has been resolved.
EarlyDiscovery == step' # "home" => now' = 0 /\ Changes' = 0
-----------------------------------------------------------------------------
Scalar(x) == [array |-> FALSE, items |-> {x}]
Array(s) == [array |-> TRUE, items |-> s]

None == [object |-> TRUE, value |-> {}, default |-> {}, add |-> {}, essential |-> FALSE,
         one_of |-> {}, subset_of |-> {}, superset_of |-> {}]

\* Every operator alone.
Single ==
    {[None EXCEPT !.value = {v}] : v \in {Scalar("a"), Array({"a"})}}
    \cup {[None EXCEPT !.default = {v}] : v \in {Scalar("a"), Array({"b"})}}
    \cup {[None EXCEPT !.add = {s}] : s \in {{"a"}, {"b"}}}
    \cup {[None EXCEPT !.essential = TRUE]}
    \cup {[None EXCEPT !.one_of = {s}] : s \in {{"a"}, {"b"}}}
    \cup {[None EXCEPT !.subset_of = {s}] : s \in {{}, {"a"}}}
    \cup {[None EXCEPT !.superset_of = {s}] : s \in {{"a"}, {"a", "b"}}}

Both(x, y) ==
    [object |-> TRUE, value |-> x.value \cup y.value, default |-> x.default \cup y.default,
     add |-> x.add \cup y.add, essential |-> x.essential \/ y.essential,
     one_of |-> x.one_of \cup y.one_of, subset_of |-> x.subset_of \cup y.subset_of,
     superset_of |-> x.superset_of \cup y.superset_of]

Pairs == {o \in {Both(x, y) : x \in Single, y \in Single} :
             /\ Cardinality(o.value) <= 1 /\ Cardinality(o.default) <= 1
             /\ \A f \in {o.add, o.one_of, o.subset_of, o.superset_of} : Cardinality(f) <= 1}

Policies ==
    {[p \in {"grants"} |-> o] : o \in Pairs}
    \cup {[p \in {"grants", "name"} |-> IF p = "grants" THEN o ELSE n] :
            o \in Single, n \in {[None EXCEPT !.essential = TRUE],
                                 [None EXCEPT !.object = FALSE]}}

Documents ==
    {[p \in {"grants", "name"} |-> IF p = "grants" THEN g ELSE n] :
        g \in {{}} \cup {{Scalar(x)} : x \in Item} \cup {{Array(s)} : s \in SUBSET Item},
        n \in {{}, {Scalar("a")}}}
-----------------------------------------------------------------------------
\* A federation, and an application that applies policies to a document.  The two
\* share nothing, so each is looked at where the other has just begun: policies
\* before anything happens in the federation, and the federation next to the
\* empty document.
FederationBegins == pc = "idle" /\ step = "home" /\ now = 0 /\ Changes = 0
PolicyBegins == calls = <<>> /\ \A p \in Param : metadata[p] = {}

BothVars == <<vars, policyVars>>
BothInit == Init /\ PolicyInit
BothNext == \/ PolicyBegins /\ Next /\ UNCHANGED policyVars
            \/ FederationBegins /\ PolicyNext /\ UNCHANGED vars
BothSpec ==
    /\ BothInit /\ [][BothNext]_BothVars
    /\ WF_BothVars(Client /\ UNCHANGED flow /\ UNCHANGED policyVars)
=============================================================================
