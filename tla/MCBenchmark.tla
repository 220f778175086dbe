---------------------------- MODULE MCBenchmark -----------------------------
(* Two repetitions of two workflows: nine server processes.  At most two   *)
(* values differ from what every process measures otherwise.               *)
EXTENDS Benchmark

Workflows == <<[name |-> "a", requests |-> 1, calls |-> 0], [name |-> "b", requests |-> 3, calls |-> 2]>>

Usual == [duration |-> 1, sizes |-> [response |-> 2, read |-> 1], tools |-> 1, schemas |-> 1,
          resources |-> [idle |-> 1]]

Kinds(name) ==
    CASE name = "first" -> {"slow", "heavy"}
      [] name = "subsequent" -> {"slow", "light"}
      [] name \in expectedToolsListProfiles -> {"long", "tools", "schemas"}
      [] OTHER -> {"slow", "long", "reads", "heavy"}

Deviation(v, kind) ==
    CASE kind = "slow" -> [v EXCEPT !.duration = 2]
      [] kind = "long" -> [v EXCEPT !.sizes["response"] = 3]
      [] kind = "reads" -> [v EXCEPT !.sizes["read"] = 2]
      [] kind = "tools" -> [v EXCEPT !.tools = 2]
      [] kind = "schemas" -> [v EXCEPT !.schemas = 0]
      [] kind = "heavy" -> [v EXCEPT !.resources["idle"] = 2]
      [] kind = "light" -> [v EXCEPT !.resources = <<>>]
      [] OTHER -> v

Deviations == UNION {{i} \X Kinds(Plan[i].name) : i \in DOMAIN Plan} \cup {<<0, "none">>}

MeasurableValues ==
    {[i \in DOMAIN Plan |-> Deviation(Deviation(Usual, IF d[1] = i THEN d[2] ELSE "none"),
                                      IF e[1] = i THEN e[2] ELSE "none")]
       : d \in Deviations, e \in Deviations}

Budget(response, time) ==
    [readable |-> TRUE, catalog |-> <<"a", "b">>,
     tools |-> [p \in expectedToolsListProfiles |->
                  [tools |-> 1, schemas |-> 1, max |-> [response |-> response]]],
     workflows |-> [w \in {"a", "b"} |->
                      [calls |-> IF w = "a" THEN 0 ELSE 2, max |-> [response |-> response, read |-> 1]]],
     p95 |-> [w \in {"a", "b"} |-> time], start |-> time, resources |-> [idle |-> 1]]

Files ==
    [exact |-> Budget(2, 1),
     loose |-> Budget(3, 2),
     unreadable |-> [Budget(2, 1) EXCEPT !.readable = FALSE],
     zero |-> [Budget(2, 1) EXCEPT !.p95["a"] = 0],
     missing |-> [Budget(2, 1) EXCEPT !.workflows = [w \in {"a"} |-> @["a"]]],
     duplicate |-> [Budget(2, 1) EXCEPT !.catalog = <<"a", "b", "a">>],
     other |-> [Budget(2, 1) EXCEPT
                  !.catalog = <<"a">>, !.p95 = [w \in {"a"} |-> 1],
                  !.workflows = [w \in {"a"} |-> @["a"]]]]
=============================================================================
