--------------------------- MODULE MCOutcomeScore ---------------------------
(***************************************************************************)
(* Every single entry an author might write, right or wrong, and pairs of  *)
(* entries of weight 1 and 2; and for every kind of check the answers at   *)
(* its edges.                                                              *)
(***************************************************************************)
EXTENDS OutcomeScore

(* A number, a quantity, two spellings of a version, words, a list. *)
Num(n) == [kind |-> "int", num |-> n, spelling |-> "", hit |-> FALSE]
Quantity(n, s) == [kind |-> "quantity", num |-> n, spelling |-> s, hit |-> FALSE]
Version(s) == [kind |-> "numeric", num |-> 2, spelling |-> s, hit |-> FALSE]
Word(h) == [kind |-> "word", num |-> 0, spelling |-> "w", hit |-> h]
List(h) == [kind |-> "list", num |-> 0, spelling |-> "", hit |-> h]

Values == {Num(2), Num(3), Quantity(2, "2Ki"), Quantity(2, "2048"), Version("2.0"),
           Version("2.00"), Word(TRUE), Word(FALSE), List(TRUE), List(FALSE)}
RightHands == {Num(2), Quantity(2, "2Ki"), Version("2.0"), Word(TRUE)}

Base == [type |-> "resource_property", op |-> "exists", value |-> Num(2),
         across |-> "unset", path |-> FALSE, wildcard |-> FALSE, file |-> FALSE,
         requireNewCommit |-> FALSE, status |-> 200, body |-> FALSE, named |-> FALSE,
         min |-> 0, max |-> 0, bounded |-> FALSE]

Blank == [get |-> "listed", objects |-> <<>>, repository |-> TRUE, head |-> TRUE,
          roots |-> TRUE, atRoot |-> FALSE, file |-> "read", attempt |-> "answered",
          status |-> 200, bodyMatches |-> FALSE, pods |-> <<>>, exec |-> "done",
          output |-> Word(TRUE), wait |-> "met", ready |-> 0, uid |-> "u1",
          created |-> "t1", baselineUid |-> "u1", baselineCreated |-> "t1"]

Ask(checks, answers) == [check : checks, answer : answers]

(* One object with one element and one value, for the operators; and the   *)
(* shapes the two reductions tell apart, over values that satisfy the      *)
(* check and values that do not.                                           *)
Shapes ==
  LET y == Num(2)
      n == Num(3) IN
  {<<>>, << <<>> >>, << << <<>> >> >>, << << <<y>> >> >>, << << <<n>> >> >>,
   << << <<y>>, <<>> >> >>, << << <<y, n>> >> >>, << << <<y>> >>, <<>> >>,
   << << <<y>>, <<y>> >> >>, << << <<n>> >>, << <<n>> >> >>, << << <<y>>, <<n>> >> >>}

PathChecks(type, file) ==
  LET pathed == [Base EXCEPT !.type = type, !.path = TRUE, !.file = file] IN
  {[pathed EXCEPT !.op = o, !.across = a, !.wildcard = w] :
     o \in {"eq", "exists"}, a \in {"unset", "every", "none"}, w \in BOOLEAN}
  \cup {[pathed EXCEPT !.op = "absent"]}

OperatorQuestions ==
  Ask({[Base EXCEPT !.path = TRUE, !.op = o, !.value = r] : o \in ValueOps, r \in RightHands},
      {[Blank EXCEPT !.objects = << << <<v>> >> >>] : v \in Values})

ResourceQuestions ==
  Ask(PathChecks("resource_property", FALSE) \cup {Base, [Base EXCEPT !.op = "absent"]},
      {[Blank EXCEPT !.objects = s] : s \in Shapes}
        \cup {[Blank EXCEPT !.get = g] : g \in {"not_found", "failed"}})

GitQuestions ==
  LET git == [Base EXCEPT !.type = "git_repo_sync"] IN
  Ask(PathChecks("git_repo_sync", TRUE),
      {[Blank EXCEPT !.objects = s] : s \in Shapes \ {<<>>}})
  \cup Ask({[git EXCEPT !.file = f, !.requireNewCommit = r] : f, r \in BOOLEAN},
           {[Blank EXCEPT !.repository = b[1], !.head = b[2], !.roots = b[3],
                          !.atRoot = b[4], !.file = f] :
              b \in [1..4 -> BOOLEAN], f \in {"read", "missing", "unreadable", "bad_yaml"}})

ProbeQuestions ==
  Ask({[Base EXCEPT !.type = "http_probe", !.body = b] : b \in BOOLEAN},
      {[Blank EXCEPT !.attempt = t, !.status = s, !.bodyMatches = m] :
         t \in {"no_time", "kubectl_failed", "raised", "no_marker", "answered", "unreachable"},
         s \in {200, 503}, m \in BOOLEAN})

Pod(p, r) == [phase |-> p, ready |-> r]
PodLists == {<<>>, <<Pod("Pending", "none")>>, <<Pod("Running", "none")>>,
             <<Pod("Running", "False")>>, <<Pod("Running", "True")>>,
             <<Pod("Running", "True"), Pod("Pending", "none")>>}

PodQuestions ==
  Ask({[Base EXCEPT !.type = "pod_exec", !.op = "contains", !.named = n] : n \in BOOLEAN},
      {[Blank EXCEPT !.get = g, !.pods = p, !.exec = x, !.output = o] :
         g \in {"listed", "failed"}, p \in PodLists, x \in {"done", "failed"},
         o \in {Word(TRUE), Word(FALSE)}})
  \cup Ask({[Base EXCEPT !.type = "pod_healthy"]},
           {[Blank EXCEPT !.wait = w, !.get = g, !.pods = p] :
              w \in {"met", "failed"}, g \in {"listed", "failed"}, p \in PodLists})

StateQuestions ==
  Ask({[Base EXCEPT !.type = "scaling_complete", !.min = 1, !.max = 2, !.bounded = b] :
         b \in BOOLEAN},
      {[Blank EXCEPT !.get = g, !.ready = n] :
         g \in {"listed", "not_found", "failed"}, n \in 0..3})
  \cup Ask({[Base EXCEPT !.type = "identity_preserved"]},
           {[Blank EXCEPT !.get = g, !.uid = u, !.created = t,
                          !.baselineUid = bu, !.baselineCreated = bt] :
              g \in {"listed", "not_found", "failed"}, u \in {"u1", "u2", "none"},
              t \in {"t1", "t2", "none"}, bu \in {"u1", "none"}, bt \in {"t1", "none"}})

MCQuestions ==
  OperatorQuestions \cup ResourceQuestions \cup GitQuestions
  \cup ProbeQuestions \cup PodQuestions \cup StateQuestions

-----------------------------------------------------------------------------
(* Check trees of one leaf, and groups around it. *)
Malformed == {{}, {"field"}, {"path"}, {"pattern"}}

LeafNodes ==
  LET checks == {[Base EXCEPT !.type = t, !.op = o, !.across = a, !.path = p, !.file = f,
                              !.named = n] :
                   t \in {"resource_property", "git_repo_sync", "pod_exec"},
                   o \in {"eq", "matches", "exists", "absent"}, a \in {"unset", "every"},
                   p, f, n \in BOOLEAN}
            \cup {[Base EXCEPT !.type = "scaling_complete", !.min = b[1], !.max = b[2],
                               !.bounded = TRUE] : b \in {<<1, 2>>, <<2, 1>>, <<-1, 0>>}}
            \cup {[Base EXCEPT !.type = t] : t \in {"http_probe", "unknown"}} IN
  {[type |-> c.type, children |-> 0, check |-> c, selected |-> s, valued |-> v, wrong |-> w] :
     c \in checks, s, v \in BOOLEAN, w \in Malformed}

Group(type, n) == [type |-> type, children |-> n, check |-> Base, selected |-> FALSE,
                   valued |-> FALSE, wrong |-> {}]

GoodLeaf == Leaf(Base)
BadLeaf == [GoodLeaf EXCEPT !.wrong = {"field"}]
NullGroup == [Group("all", 0) EXCEPT !.wrong = {"children"}]

Trees == {<<>>} \cup {<<n>> : n \in LeafNodes}
         \cup {<<n, Group(t, 1)>> : t \in {"all", "none"}, n \in {GoodLeaf, BadLeaf}}
         \cup {<<Group("any", 0)>>, <<Group("unknown", 0)>>}
         \cup {<<NullGroup, Group("any", 1)>>, <<BadLeaf, NullGroup, Group("any", 2)>>}

Entry == [name |-> "x", role |-> "objective", severity |-> "none", weight |-> 1,
          mode |-> "unset", interval |-> 0, window |-> 0, wrong |-> FALSE, nodes |-> <<GoodLeaf>>]

(* Every way to write a role, a severity, a mode and its numbers; every    *)
(* check tree under one entry. *)
SingleEntries ==
  {[Entry EXCEPT !.role = r, !.severity = s, !.mode = m, !.interval = i, !.window = w,
                 !.weight = g] :
     r \in {"objective", "safeguard", "none"},
     s \in {"none", "recoverable", "catastrophic", "other"},
     m \in {"unset", "converge", "assert", "hold"}, i \in {-1, 0, 1, 3}, w \in {-1, 0, 2, 5},
     g \in {0, 1}}
  \cup {[Entry EXCEPT !.nodes = t] : t \in Trees}

(* For the pairs: each class, well and badly written. *)
Written(name, weight) ==
  {[Entry EXCEPT !.name = name, !.weight = weight, !.role = c[1], !.severity = c[2],
                 !.wrong = b] :
     c \in {<<"objective", "none">>, <<"safeguard", "recoverable">>,
            <<"safeguard", "catastrophic">>}, b \in BOOLEAN}
  \cup {[Entry EXCEPT !.name = name, !.role = "safeguard", !.severity = "other"]}

Pairs == {<<a, b>> : a \in Written("x", 1), b \in Written("x", 2) \cup Written("y", 2)}

MCSpecs == {<<>>} \cup {<<d>> : d \in SingleEntries} \cup Pairs

=============================================================================
