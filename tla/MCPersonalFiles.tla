--------------------------- MODULE MCPersonalFiles ---------------------------
(* Instance of PersonalFiles for TLC.                                       *)
EXTENDS PersonalFiles, TLC

CONSTANTS h1, h2, h3

Request(op, path, to) == [op |-> op, path |-> path, to |-> to]

UploadNameMC == [n \in Names |-> IF n = "a" THEN <<"a", "b">> ELSE <<"b">>]

RequestsMC ==
    {Request(op, "a", "a") : op \in {"mkdir", "replace", "keep-both", "save",
                                      "trash", "write"}}
    \cup {Request("error", "b", "b"), Request("restore", "a", "a"),
          Request("move", "a", "b"), Request("move", "b", "a")}

SameHelpers == Permutations(Helpers)
=============================================================================
