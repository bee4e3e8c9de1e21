----------------------------- MODULE MCLauncher -----------------------------
(* The bundled policies, and every change of one rule or one default. *)
EXTENDS Launcher

Default ==
  [version |-> 1, name |-> "default", raw_logging |-> FALSE,
   unknown_sensitive |-> "block", max_request_bytes |-> 1024 * 1024,
   ledger_max_entries |-> 4096,
   categories |->
     [class \in AllDataClasses |->
        IF hard_block(class) THEN Rule("block", FALSE, {})
        ELSE Rule("tokenize", TRUE, {DefaultRestorationTtl})],
   detectors |-> [suffixes |-> 2, terms |-> 0, prefixes |-> 2,
                  lengths |-> {6, 7}, control |-> FALSE]]

Rules ==
  {Rule(action, restorable, ttl) :
     action \in {"allow", "mask", "tokenize", "block"}, restorable \in BOOLEAN,
     ttl \in {{}, {0}, {MaxRestorationTtl}, {MaxRestorationTtl + 1}}}

MCPolicies ==
  {Default, [Default EXCEPT !.name = "demo"], [Default EXCEPT !.name = "unsafe"],
   [Default EXCEPT !.version = 2], [Default EXCEPT !.raw_logging = TRUE],
   [Default EXCEPT !.unknown_sensitive = "allow"],
   [Default EXCEPT !.detectors.lengths = {2, 6}],
   [Default EXCEPT !.detectors.prefixes = 17],
   [Default EXCEPT !.categories =
      [class \in AllDataClasses \ {"Phone"} |-> Default.categories[class]]],
   [Default EXCEPT !.categories =
      [class \in AllDataClasses \union {"Other"} |-> Rule("block", FALSE, {})]]}
  \union {[Default EXCEPT !.max_request_bytes = n] : n \in {1023, 8 * 1024 * 1024 + 1}}
  \union {[Default EXCEPT !.ledger_max_entries = n] : n \in {0, 1, 16384, 16385}}
  \union {[Default EXCEPT !.categories[class] = rule] :
            class \in {"Jwt", "Email"}, rule \in Rules}
=============================================================================
