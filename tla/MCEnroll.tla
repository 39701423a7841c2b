------------------------------ MODULE MCEnroll ------------------------------
(***************************************************************************)
(* An instance of Enroll for TLC: two tokens and two token files, one for  *)
(* the command line and one for the configuration file.                    *)
(***************************************************************************)
EXTENDS Enroll, TLC

CONSTANTS t1, t2

Flags(given) == [o \in Option |-> IF o \in DOMAIN given THEN given[o] ELSE None]

CommandLines ==
  {Flags(<<>>),
   Flags([o \in {"token-file"} |-> "flag"]),
   Flags([o \in {"non-interactive"} |-> TRUE]),
   Flags([o \in {"non-interactive", "delete-token-file"} |-> FALSE]),
   Flags([o \in {"http-timeout", "minimum-memory-bytes"} |-> 0]),
   Flags([o \in {"config"} |-> "given"])}

Conf(kind, given) == [kind |-> kind, values |-> Flags(given)]

ConfigFiles ==
  {Conf("absent", <<>>),
   Conf("unusable", <<>>),
   Conf("usable", [o \in {"token-file"} |-> "conf"]
                    @@ [o \in {"delete-token-file"} |-> TRUE]),
   Conf("usable", [o \in {"non-interactive", "delete-token-file"} |-> TRUE]),
   Conf("usable", [o \in {"api-url"} |-> "http"]),
   Conf("usable", [o \in {"dry-run"} |-> TRUE]),
   Conf("usable", [o \in {"http-timeout"} |-> 0]
                    @@ [o \in {"minimum-memory-bytes"} |-> 4])}

Contents ==
  {[p \in Path |-> IF p = "flag" THEN t1 ELSE t2],
   [p \in Path |-> IF p = "flag" THEN "absent" ELSE t1],
   [p \in Path |-> IF p = "flag" THEN "exposed" ELSE "bad"]}
=============================================================================
