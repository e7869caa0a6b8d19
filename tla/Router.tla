------------------------------- MODULE Router -------------------------------
(***************************************************************************)
(* How a request finds its handler.  The routes are the keys of a PATRICIA *)
(* trie, and longest_match walks down it by common prefixes.  A request    *)
(* passes through its route twice, when its header has been read and when  *)
(* its body has: the digest middleware checks it the first time only, the  *)
(* handler answers the second time.  Nothing is kept from the first to the *)
(* second: each makes a request object of its own.                         *)
(*                                                                         *)
(* Characters are numbers, in their order.                                 *)
(***************************************************************************)
EXTENDS Naturals, FiniteSets, SequencesExt

CONSTANTS
  Slash,      \* the character that every route and target begins with
  Routes,     \* routes: whether they are exact, whether behind the digest middleware
  Paths,      \* the paths of routes
  Targets,    \* the request targets
  MaxRoutes   \* bound on the number of routes

ASSUME RouterAssumption ==
  /\ Paths \union Targets \subseteq Seq(Nat)
  /\ \A p \in Paths \union Targets : p # <<>> /\ p[1] = Slash
  /\ Routes \subseteq [exact : BOOLEAN, digest : BOOLEAN]
  /\ MaxRoutes \in Nat

VARIABLES
  table,     \* m_get
  request,   \* the request in its session
  pass,      \* what comes next: "start", "header", "body", or "done", "crashed"
  granted,   \* history: digest_auth has accepted the header
  response   \* who has answered

vars == <<table, request, pass, granted, response>>

(***************************************************************************)
(* What an authorization header is to digest_auth: absent, or one that it  *)
(* does not accept, or right; or one that ends behind a "=", whose parse   *)
(* throws.                                                                 *)
(***************************************************************************)
Requests == [target : Targets, get : BOOLEAN, auth : {"none", "wrong", "right", "cut"}]

NoRequest == [target |-> <<Slash>>, get |-> FALSE, auth |-> "none"]

TypeOK ==
  /\ DOMAIN table \subseteq Paths
  /\ \A p \in DOMAIN table : table[p] \in Routes
  /\ request \in Requests \union {NoRequest}
  /\ pass \in {"start", "header", "body", "done", "crashed"}
  /\ granted \in BOOLEAN
  /\ response \in {"none", "router", "digest", "handler"}
  /\ response # "none" <=> pass = "done"

-----------------------------------------------------------------------------
(* The trie.                                                                *)

Common(s, t) ==
  Cardinality({i \in 1..Len(s) : i <= Len(t) /\ SubSeq(s, 1, i) = SubSeq(t, 1, i)})

\* The keys are leaves; where two keys part there is an inner node.
Leaf(k) == [label |-> k, leaf |-> TRUE]
Nodes(keys) ==
  {Leaf(k) : k \in keys} \union
  UNION {{[label |-> SubSeq(k, 1, Common(k, l)), leaf |-> FALSE] :
            l \in keys \ {k}} : k \in keys}

Below(n, m) ==
  ~m.leaf /\ IsPrefix(m.label, n.label) /\ (n.leaf \/ n.label # m.label)

Root(nodes) == CHOOSE n \in nodes : ~\E m \in nodes : Below(n, m)

Children(nodes, n) ==
  LET below == {c \in nodes : Below(c, n)} IN
  {c \in below : ~\E d \in below : Below(c, d)}

\* Children are stored by their character behind the label of the parent; a key that
\* ends with the label comes first.
Before(c, d, n) ==
  LET at == Len(n.label) + 1 IN
  Len(c.label) < at \/ (Len(d.label) >= at /\ c.label[at] < d.label[at])

\* the child with the most in common, the first of several
Fits(c, d, n, target) ==
  \/ Common(c.label, target) > Common(d.label, target)
  \/ Common(c.label, target) = Common(d.label, target) /\ Before(c, d, n)

Best(children, n, target) ==
  {c \in children : \A d \in children \ {c} : Fits(c, d, n, target)}

\* mutant: of children that fit equally well the last one is taken
NextChildLast(nodes, n, target) ==
  LET children == {c \in Children(nodes, n) : Common(c.label, target) > 0} IN
  {c \in children : \A d \in children \ {c} :
     \/ Common(c.label, target) > Common(d.label, target)
     \/ Common(c.label, target) = Common(d.label, target) /\ Before(d, c, n)}

\* mutant: the first child with anything in common is taken
NextChildFirst(nodes, n, target) ==
  LET children == {c \in Children(nodes, n) : Common(c.label, target) > 0} IN
  {c \in children : \A d \in children \ {c} : Before(c, d, n)}

\* mutant: a child has to have more in common than its parent
NextChildBetter(nodes, n, target) ==
  Best({c \in Children(nodes, n) : Common(c.label, target) > Len(n.label)}, n, target)

NextChild(nodes, n, target) ==
  Best({c \in Children(nodes, n) : Common(c.label, target) > 0}, n, target)

LongestMatch(keys, target) ==
  LET nodes == Nodes(keys)
      walk[n \in nodes] ==
        LET next == NextChild(nodes, n, target) IN
        IF next = {} THEN n ELSE walk[CHOOSE c \in next : TRUE]
  IN walk[Root(nodes)]

Match == LongestMatch(DOMAIN table, request.target)

\* whether the router answers a request itself, with bad_request
Rejected ==
  \/ DOMAIN table = {}
  \/ LET found == Match.label IN table[found].exact /\ found # request.target

-----------------------------------------------------------------------------
Init ==
  /\ table = <<>>
  /\ request = NoRequest
  /\ pass = "start"
  /\ granted = FALSE
  /\ response = "none"

\* main registers a route; a second one for the path is ignored
Get(path, route) ==
  /\ pass = "start"
  /\ Cardinality(DOMAIN table \union {path}) <= MaxRoutes
  /\ table' = [p \in DOMAIN table \union {path} |->
                 IF p \in DOMAIN table THEN table[p] ELSE route]
  /\ UNCHANGED <<request, pass, granted, response>>

\* a header has been read
Arrive(req) ==
  /\ pass = "start"
  /\ request' = req
  /\ pass' = "header"
  /\ UNCHANGED <<table, granted, response>>

Answer(who) == response' = who /\ pass' = "done"

Proceed == pass' = "body" /\ UNCHANGED response

\* mutant: a request without the header is let through
DigestLets ==
  CASE request.auth \in {"right", "none"} -> Proceed /\ granted' = (request.auth = "right")
    [] request.auth = "cut" -> pass' = "crashed" /\ UNCHANGED <<granted, response>>
    [] OTHER -> Answer("digest") /\ UNCHANGED granted

Digest ==
  CASE request.auth = "right" -> Proceed /\ granted' = TRUE
    [] request.auth = "cut" -> pass' = "crashed" /\ UNCHANGED <<granted, response>>
    [] OTHER -> Answer("digest") /\ UNCHANGED granted

\* The other middleware, and every handler, lets the header pass.
BeforeBody ==
  /\ pass = "header"
  /\ IF ~request.get THEN Proceed /\ UNCHANGED granted
     ELSE IF Rejected THEN Answer("router") /\ UNCHANGED granted
     ELSE IF table[Match.label].digest THEN Digest
     ELSE Proceed /\ UNCHANGED granted
  /\ UNCHANGED <<table, request>>

Handle ==
  /\ pass = "body"
  /\ Answer(IF ~request.get \/ Rejected THEN "router" ELSE "handler")
  /\ UNCHANGED <<table, request, granted>>

Next ==
  \/ \E path \in Paths, route \in Routes : Get(path, route)
  \/ \E req \in Requests : Arrive(req)
  \/ BeforeBody
  \/ Handle

Spec == Init /\ [][Next]_vars

-----------------------------------------------------------------------------
Matching == pass = "header" /\ DOMAIN table # {}

\* Whatever routes there are, the walk ends at a route and not at an inner node,
\* which longest_match would dereference as if it were one.
LeafFound == Matching => Match.leaf

\* A target that is a route is answered by this route, although others begin with it
\* or with its prefixes.
RouteFound == Matching /\ request.target \in DOMAIN table => Match = Leaf(request.target)

\* No route has more in common with the target than the one that is found: the greedy
\* walk loses nothing.
Greatest ==
  Matching =>
    LET found == Match IN
    \A p \in DOMAIN table : Common(p, request.target) <= Common(found.label, request.target)

\* A handler behind the digest middleware answers no request that it has not accepted,
\* although it looks at the request in the first pass only.
Guarded ==
  response = "handler" /\ table[Match.label].digest => granted

\* README.md: "matched ... by the request target, via Longest-Prefix Match"
LongestPrefix ==
  Matching =>
    \A p \in DOMAIN table :
      IsPrefix(p, request.target) =>
        IsPrefix(Match.label, request.target) /\ Len(p) <= Len(Match.label)
=============================================================================
