------------------------------ MODULE MCParser ------------------------------
(* An instance of Parser for TLC: two promises and two options in any       *)
(* sections and classes, of one file or of a file and the one it imports.   *)
EXTENDS Parser

(* Sections the parser treats alike are stood for by one of them. *)
Sections == (DirectSections \cup PathSections \cup FunctionSections
             \cup BraceSections \cup OtherSections)
            \ {"defaultroute", "mailserver", "binservers", "homeservers",
               "disks", "rename"}
Classes == {"any", "miss", "made"}
(* An option of every kind: a plain one, a list, one that defines a class,  *)
(* those that complete an entry, that exclude each other, and those that    *)
(* InitializeAction treats in a way of their own.                           *)
Options == {"uid", "exclude", "define", "age", "matches", "netmask",
            "broadcast", "compat", "encrypt", "failover", "linktype",
            "mountopts", "expireafter"}
=============================================================================
