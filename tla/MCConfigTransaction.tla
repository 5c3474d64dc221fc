------------------------ MODULE MCConfigTransaction ------------------------
(* Small instances of ConfigTransaction for TLC. *)
EXTENDS ConfigTransaction

C(servers, tokens, admin) ==
  [form |-> "config", servers |-> servers, tokens |-> tokens, admin |-> admin]
Only(id, v) == [i \in {id} |-> v]

(* The Admin token is "adm"; "t1" is an MCP token a server may also be given. *)
MCFirst == C(Only("s", "x"), {"t1"}, "adm")

(* There may be no file at first. *)
MCFirsts == {MCFirst, NoConfig}
StartFirsts == {MCFirst}

(* A half-written file, none, a server given the MCP token under a new Admin
   token, with the old one as an MCP token, the two tokens alike, and the first
   contents again, without a mistake or with one that does not validate. *)
Garbage == [NoConfig EXCEPT !.form = "text"]
MCEdits == {Garbage, NoConfig, C(Only("s", "t1"), {"t2", "adm"}, "adm2"),
            C(Only("s", "x"), {"adm"}, "adm"),
            MCFirst, [MCFirst EXCEPT !.form = "json"]}

StartEdits == {C(Only("s", "y"), {"t1"}, "adm")}

MCOps == {[kind |-> "put", id |-> "s", env |-> "t1"],
          [kind |-> "put", id |-> "n", env |-> "sentinel"],
          [kind |-> "delete", id |-> "s"],
          [kind |-> "post", token |-> "adm"],
          [kind |-> "drop", token |-> "t2"]}
MCImports == {[id |-> "n", env |-> "x"]}
=============================================================================
