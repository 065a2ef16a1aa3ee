---------------------------- MODULE MCGenerated ----------------------------
(* What the generators write, on small instances.                          *)
EXTENDS CrudPage

\* Nothing is asked of the generator, or one thing.
Default == [create |-> "default", update |-> "default", list |-> "default", detail |-> "default",
            query |-> "default", form |-> "default", required |-> "default", hint |-> "default",
            meta |-> "default"]

Column(name, kind, nullable, preset, asked) ==
    [name |-> name, kind |-> kind, options |-> FALSE, nullable |-> nullable, preset |-> preset,
     asked |-> asked]

MCColumns ==
    {Column("plain", kind, nullable, ~ nullable /\ kind = "boolean", Default) :
        kind \in {"string", "decimal", "boolean", "number"}, nullable \in BOOLEAN}
    \cup {Column("plain", kind, FALSE, FALSE, Default) : kind \in {"date", "json"}}
    \cup {Column(name, "string", name = "salt", FALSE, Default) :
              name \in {"password", "salt", "create_by", "sort"}}
    \cup {Column("plain", "string", call \in {"update", "detail"}, FALSE,
                 [Default EXCEPT ![call] = "out"]) :
              call \in {"create", "update", "list", "detail", "query", "form"}}
    \cup {Column("token", "number", FALSE, FALSE, Default),
          Column("create_time", "date", FALSE, TRUE, Default),
          Column("sort", "number", FALSE, FALSE, [Default EXCEPT !.form = "in"]),
          Column("plain", "number", FALSE, FALSE, [Default EXCEPT !.required = "out"]),
          Column("plain", "number", TRUE, FALSE, [Default EXCEPT !.hint = "value", !.meta = "range"])}

MCPageInit == PageInit /\ db[2] = First(2)
MCPageSpec == MCPageInit /\ [][PageNext]_pageVars
=============================================================================
