----------------------------- MODULE MCCommandLine -----------------------------
(***************************************************************************)
(* Instances of CommandLine: all lines of one and two sections, and those  *)
(* again behind one that fails.  The names p and pa differ by one letter,  *)
(* so that their copies can meet; m is missing, and ma is there.           *)
(***************************************************************************)
EXTENDS CommandLine, TLC

Script(stem, n) == [stem |-> stem, as |-> n]

p == Script("p", 0)
pa == Script("p", 1)
q == Script("q", 0)
m == Script("m", 0)
ma == Script("m", 1)

Echo == Section("plain", <<>>)
Bad == Section("bad", <<>>)
File == Section("file", <<>>)
QuitCmd == Section("quit", <<>>)

MCText == p :> << <<Echo, File>>, <<Bad>> >>
          @@ pa :> << <<Echo>> >>
          @@ ma :> << <<File>> >>
          @@ q :> << <<Echo, QuitCmd>>, <<Bad, QuitCmd, Echo, File, Echo>> >>

Sections == {Echo, Bad, File, QuitCmd, Exec(<<p>>), Exec(<<p, pa>>), Exec(<<pa, p>>),
             Exec(<<q, p>>), Exec(<<m>>), Exec(<<ma, m>>), Exec(<<p, p, p, p>>)}

ShortLines == UNION {[1 .. n -> Sections] : n \in 1 .. 2}

MCLine == ShortLines \cup {<<Bad>> \o line : line \in ShortLines}

================================================================================
