----------------------------- MODULE SecretStore -----------------------------
(* A workspace's secrets (crates/secrets/src/lib.rs) under the commands that *)
(* change them: `etl secret init`, `set` and `remove`, and a run that        *)
(* resolves one. The key is a file made with create_new and then written;    *)
(* the store is read whole, changed in memory and written over itself, with  *)
(* no lock and no temporary file. The store may be committed and the key may *)
(* not, so a workspace may start with entries that another key sealed.       *)
EXTENDS Integers, FiniteSets

CONSTANTS
    Commands,   \* processes, each one command
    Names,      \* names of secrets
    MaxEdits    \* times a person swaps two entries in the file

VARIABLES
    key,      \* the key file: "none", "empty", or the command whose key it holds
    store,    \* the store: none, cut to nothing, bad, or whole with its entries
    cmd,      \* each command: what it does, where it is, what it holds in memory
    edits,    \* swaps so far
    settled,  \* the last value saved under each name, for the properties
    clashed   \* names that a command's save took back to what it had read

secretVars == <<key, store, cmd, edits, settled, clashed>>

(* A sealed value: its key, the name it was sealed under (the associated    *)
(* data), and the value, which is the command that set it.                  *)
Entries == [by : Commands \cup {"other"}, name : Names, value : Commands \cup {"old"}]
NoEntry == [by |-> "other", name |-> "", value |-> "old"]
Maps == [Names -> Entries \cup {NoEntry}]
Nothing == [n \in Names |-> NoEntry]
Stores == [is : {"none", "empty", "bad", "whole"}, map : Maps]
File(is) == [is |-> is, map |-> Nothing]
Whole(map) == [is |-> "whole", map |-> map]

Ops == {"init", "set", "remove", "get"}

Init ==
    /\ key = "none"
    /\ store \in {File("none"),
                 Whole([n \in Names |-> [by |-> "other", name |-> n, value |-> "old"]])}
    /\ cmd \in [Commands -> [op : Ops, name : Names, at : {"start"}, key : {"none"},
                             mem : {Nothing}, got : {"-"}, stale : {{}}]]
    /\ edits = 0 /\ clashed = {}
    /\ settled = [n \in Names |-> "-"]

Goto(c, label) == [cmd EXCEPT ![c].at = label]
Ends(c, told) == [cmd EXCEPT ![c] = [@ EXCEPT !.at = "end", !.got = told, !.mem = Nothing,
                                              !.stale = {}]]

-----------------------------------------------------------------------------
(* initialise: a key that is there, whatever is in it, is left alone.       *)
(* `remove`, `list` and a run do not make one.                              *)
Initialise(c) ==
    /\ cmd[c].at = "start"
    /\ IF cmd[c].op \in {"init", "set"} /\ key = "none" THEN cmd' = Goto(c, "create")
       ELSE IF cmd[c].op = "init" THEN cmd' = Ends(c, "done")
       ELSE cmd' = Goto(c, "key")
    /\ UNCHANGED <<key, store, edits, settled, clashed>>

\* Mutant: the file is opened without create_new.
MakesOver == TRUE
MayMake == key = "none"

(* write_new: create_new, so that of two racing commands one fails ...      *)
CreateKey(c) ==
    /\ cmd[c].at = "create"
    /\ IF MayMake THEN key' = "empty" /\ cmd' = Goto(c, "fill")
       ELSE key' = key /\ cmd' = Ends(c, "error")
    /\ UNCHANGED <<store, edits, settled, clashed>>

(* ... and then the key's text.                                             *)
FillKey(c) ==
    /\ cmd[c].at = "fill"
    /\ key' = c
    /\ cmd' = IF cmd[c].op = "init" THEN Ends(c, "done") ELSE Goto(c, "key")
    /\ UNCHANGED <<store, edits, settled, clashed>>

(* open_existing: no key, or one that is not 32 bytes of hexadecimal, is an *)
(* error.                                                                   *)
ReadKey(c) ==
    /\ cmd[c].at = "key"
    /\ cmd' = IF key \in {"none", "empty"} THEN Ends(c, "error")
              ELSE [cmd EXCEPT ![c].at = "open", ![c].key = key]
    /\ UNCHANGED <<key, store, edits, settled, clashed>>

Parses == store.is \in {"none", "whole"}

\* Mutant: a command begins with an empty store.
ReadNothing == Nothing

(* What the store's text holds; a store that is not there holds nothing.     *)
Read == store.map

(* The store: none is an empty one, one that does not parse is an error.    *)
OpenStore(c) ==
    /\ cmd[c].at = "open"
    /\ cmd' = IF ~Parses THEN Ends(c, "error")
              ELSE [cmd EXCEPT ![c].at = cmd[c].op, ![c].mem = Read]
    /\ UNCHANGED <<key, store, edits, settled, clashed>>

-----------------------------------------------------------------------------
(* set: sealed under the key that was read, with the name beside it.        *)
Set(c) ==
    /\ cmd[c].at = "set"
    /\ cmd' = [cmd EXCEPT ![c].at = "cut",
                          ![c].mem[cmd[c].name] =
                              [by |-> cmd[c].key, name |-> cmd[c].name, value |-> c]]
    /\ UNCHANGED <<key, store, edits, settled, clashed>>

Remove(c) ==
    /\ cmd[c].at = "remove"
    /\ cmd' = IF cmd[c].mem[cmd[c].name] = NoEntry THEN Ends(c, "error")
              ELSE [cmd EXCEPT ![c].at = "cut", ![c].mem[cmd[c].name] = NoEntry]
    /\ UNCHANGED <<key, store, edits, settled, clashed>>

\* Mutant: an entry opens under any name.
OpensAnywhere(e, c) == e.by = cmd[c].key
Opens(e, c) == e.by = cmd[c].key /\ e.name = cmd[c].name

(* get: absent, or opened, or an error: an entry that will not open is not  *)
(* "no such secret".                                                        *)
Get(c) ==
    /\ cmd[c].at = "get"
    /\ LET e == cmd[c].mem[cmd[c].name] IN
       cmd' = Ends(c, IF e = NoEntry THEN "absent"
                      ELSE IF Opens(e, c) THEN e.value ELSE "error")
    /\ UNCHANGED <<key, store, edits, settled, clashed>>

(* save: std::fs::write cuts the file to nothing ...                        *)
SaveCut(c) ==
    /\ cmd[c].at = "cut"
    /\ store' = File("empty")
    /\ cmd' = Goto(c, "write")
    /\ UNCHANGED <<key, edits, settled, clashed>>

(* ... and writes it from its start: over what another command wrote there  *)
(* meanwhile, whose longer text stays behind the end.                       *)
SaveWrite(c) ==
    LET n == cmd[c].name IN
    /\ cmd[c].at = "write"
    /\ store' \in {Whole(cmd[c].mem)} \cup
                 (IF store.is = "empty" THEN {} ELSE {File("bad")})
    /\ settled' = [settled EXCEPT ![n] = IF cmd[c].op = "set" THEN c ELSE "-"]
    /\ clashed' = (clashed \cup cmd[c].stale) \ {n}
    /\ cmd' = [d \in Commands |->
         IF d = c THEN Ends(c, "done")[c]
         ELSE IF cmd[d].at \in {"set", "remove", "cut", "write"}
         THEN [cmd[d] EXCEPT !.stale = @ \cup ({n} \ {cmd[d].name})] ELSE cmd[d]]
    /\ UNCHANGED <<key, edits>>

(* A command dies wherever it is.                                           *)
Dies(c) ==
    /\ cmd[c].at \notin {"start", "end"}
    /\ cmd' = Ends(c, "died")
    /\ UNCHANGED <<key, store, edits, settled, clashed>>

(* Two entries are swapped in the file by hand.                             *)
Swap(m, n) ==
    /\ edits < MaxEdits /\ store.is = "whole" /\ m # n
    /\ store' = Whole([store.map EXCEPT ![m] = store.map[n], ![n] = store.map[m]])
    /\ edits' = edits + 1
    /\ UNCHANGED <<key, cmd, settled, clashed>>

Next ==
    \/ \E c \in Commands :
        \/ Initialise(c) \/ CreateKey(c) \/ FillKey(c) \/ ReadKey(c) \/ OpenStore(c)
        \/ Set(c) \/ Remove(c) \/ Get(c) \/ SaveCut(c) \/ SaveWrite(c) \/ Dies(c)
    \/ \E m, n \in Names : Swap(m, n)

-----------------------------------------------------------------------------
TypeOK ==
    /\ key \in Commands \cup {"none", "empty"}
    /\ store \in Stores
    /\ edits \in 0 .. MaxEdits /\ clashed \subseteq Names
    /\ settled \in [Names -> Commands \cup {"-"}]
    /\ \A c \in Commands : cmd[c].mem \in Maps

(* "a new key ... makes every existing secret permanently unreadable"       *)
(* (initialise): a key that was once read stays the workspace's, whichever  *)
(* commands raced to make it.                                               *)
KeyStays == \A c \in Commands : cmd[c].key # "none" => key = cmd[c].key

(* A run is given a value only under the name it was set under and the key  *)
(* of this workspace, even when entries were swapped by hand.               *)
ValueIsIts ==
    \A c \in Commands : cmd[c].op = "get" /\ cmd[c].got \in Commands \cup {"old"} =>
        \E d \in Commands : cmd[c].got = d /\ cmd[d].op = "set" /\ cmd[d].name = cmd[c].name

(* A secret whose save returned can be read until it is replaced or         *)
(* removed: only a save that overlapped with it, an edit, or a write cut    *)
(* short loses it, and the last leaves a store that refuses every command   *)
(* and not one that looks empty.                                            *)
SavedStays ==
    edits = 0 /\ store.is \in {"none", "whole"} =>
        \A n \in Names \ clashed : settled[n] # "-" =>
            store.map[n] = [by |-> key, name |-> n, value |-> settled[n]]
=============================================================================
