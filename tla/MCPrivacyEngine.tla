--------------------------- MODULE MCPrivacyEngine ---------------------------
(* Small instance of PrivacyEngine for TLC. *)
EXTENDS PrivacyEngine

CONSTANTS a, b, c, k, session

F(class, from, to) == [data_class |-> class, start |-> from, end |-> to]

T(mode, text, findings) == [mode |-> mode, text |-> text, findings |-> findings]

MCScopes == {session}
MCClasses == {"email", "host", "phone", "path", "key", "token"}
MCHard == {"key", "token"}
MCEmpty == <<>>
MCPolicy == [email |-> "tokenize", host |-> "tokenize", phone |-> "mask",
             path |-> "allow", key |-> "block", token |-> "block"]
MCTtl == [x \in MCClasses |-> IF x = "email" THEN 1 ELSE 2]

Plain == {
  \* two values in one text; the first one is two atoms long
  << T("rewrite", <<a, b, c, a>>, <<F("email", 4, 5), F("host", 1, 3)>>) >>,
  \* the same value in two targets, and a masked one
  << T("rewrite", <<a, c>>, <<F("email", 1, 2)>>),
     T("rewrite", <<b, a>>, <<F("phone", 1, 2), F("email", 2, 3)>>) >>,
  \* overlapping findings, the longer one weaker
  << T("rewrite", <<a, b, c>>, <<F("email", 1, 3), F("phone", 2, 3)>>) >>,
  \* a credential beside a value, and a value where nothing may be rewritten
  << T("rewrite", <<a, k>>, <<F("email", 1, 2), F("key", 2, 3)>>) >>,
  << T("block_only", <<a>>, <<F("email", 1, 2)>>) >>,
  \* what the policy allows, where nothing may be rewritten
  << T("block_only", <<c>>, <<F("path", 1, 2)>>),
     T("rewrite", <<b>>, <<F("email", 1, 2)>>) >>,
  \* more values than the ledger holds: a token may be evicted and drawn again
  << T("rewrite", <<b, a, b, a>>,
       <<F("email", 1, 2), F("host", 2, 4), F("email", 4, 5)>>) >> }

\* A finding that takes a token literal in.
AroundToken(t) ==
  << T("rewrite", <<a, t>>, <<F("host", 1, 3), F("token", 2, 3)>>) >>

WithToken(t) == {
  \* the token literal comes after, or before, the value that may evict it
  << T("rewrite", <<a, b, c, t>>, <<F("host", 1, 3), F("token", 4, 5)>>) >>,
  << T("block_only", <<t>>, <<F("token", 1, 2)>>),
     T("rewrite", <<b>>, <<F("email", 1, 2)>>) >> }

IssuedTokens == {t \in Token : t.label \in {"email", "host"}}

MCRequests ==
  Plain \cup UNION {WithToken(t) : t \in IssuedTokens}
    \cup {AroundToken([label |-> "email", hex |-> 1])}

\* One value at most is issued per request, so that the tokens lost are those
\* of earlier requests, whose literals come back.
MCDeadTokenRequests ==
  {<< T("rewrite", <<a>>, <<F("email", 1, 2)>>) >>}
    \cup UNION {WithToken(t) : t \in IssuedTokens}

\* Every part of a text, the empty one included.
MCValues ==
  UNION {UNION {{SubSeq(req[i].text, from, to - 1) :
                   from, to \in 1..Len(req[i].text) + 1} : i \in DOMAIN req} :
           req \in MCRequests}

MCDisplays == {<<t, c, u>> : t, u \in IssuedTokens}

=============================================================================
