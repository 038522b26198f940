----------------------------- MODULE MCRequests -----------------------------
(* Small instances of Requests for TLC: every text of up to MaxLength      *)
(* characters after the space, and every one or two names.                 *)
EXTENDS RequestsProperties

CONSTANTS MaxLength,   \* bound: characters that follow the command's space
          MaxName      \* bound: characters of a name that a client quotes

Strings(n) == UNION {[1 .. k -> Char] : k \in 0 .. n}

MCRest == {<<>>} \cup {<<Space>> \o s : s \in Strings(MaxLength)}

MCNames == {s \in Strings(MaxName) : Sendable(s)}

MCNameLists == {<<s>> : s \in MCNames} \cup {<<s, t>> : s, t \in {n \in MCNames : Len(n) < MaxName}}

MCQuotations == {<<Quoted(names), names>> : names \in MCNameLists}
=============================================================================
