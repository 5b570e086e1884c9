---------------------------- MODULE Permissions ----------------------------
(* Exact, workspace-scoped grants (crates/workspace/src/permissions.rs).    *)
(* A path is a record of its components in order and whether it is         *)
(* absolute; ".." and "." are components.  A grant is a program, its        *)
(* arguments and a working directory relative to the workspace root; the    *)
(* policy file holds grants as a table of strings and is read back with the *)
(* same checks a fresh request meets.                                       *)
EXTENDS Naturals, Sequences, SequencesExt

Path(abs, parts) == [abs |-> abs, parts |-> parts]
IsDot(c) == c = "."
NotDot(c) == ~IsDot(c)
HasParent(p) == \E i \in DOMAIN p.parts : p.parts[i] = ".."

\* Refused values: Option::None of the two clean functions and of from_spec.
NoParts == [ok |-> FALSE, parts |-> <<>>]
Parts(s) == [ok |-> TRUE, parts |-> s]

CleanAbsolute(p) ==
  IF ~p.abs \/ HasParent(p) THEN NoParts ELSE Parts(SelectSeq(p.parts, NotDot))

\* An empty result is written ".", and stays a directory that means the root.
CleanRelative(p) ==
  IF p.abs \/ HasParent(p) THEN NoParts
  ELSE LET kept == SelectSeq(p.parts, NotDot)
       IN  Parts(IF kept = <<>> THEN <<".">> ELSE kept)

NoGrant == [program |-> "", args |-> <<>>, cwd |-> <<>>]

\* Mutant: the lexical check that keeps a directory below the root is lost.
FromSpecAnywhere(root, spec) ==
  LET cwd == CleanAbsolute(spec.cwd)
  IN  IF spec.program = "" \/ spec.env # {} \/ ~cwd.ok THEN NoGrant
      ELSE [program |-> spec.program, args |-> spec.args,
            cwd |-> SubSeq(cwd.parts, Len(CleanAbsolute(root).parts) + 1, Len(cwd.parts))]

FromSpec(root, spec) ==
  LET base == CleanAbsolute(root)
      cwd == CleanAbsolute(spec.cwd)
      below == IF base.ok /\ cwd.ok /\ IsPrefix(base.parts, cwd.parts)
               THEN SubSeq(cwd.parts, Len(base.parts) + 1, Len(cwd.parts)) ELSE <<>>
  IN  IF \/ spec.program = "" \/ spec.env # {}
         \/ ~base.ok \/ ~cwd.ok \/ ~IsPrefix(base.parts, cwd.parts)
      THEN NoGrant
      ELSE [program |-> spec.program, args |-> spec.args,
            cwd |-> IF below = <<>> THEN <<".">> ELSE below]

Permits(grants, root, spec) ==
  FromSpec(root, spec) # NoGrant /\ FromSpec(root, spec) \in grants

Remember(grants, root, spec) ==
  LET g == FromSpec(root, spec) IN IF g = NoGrant THEN grants ELSE grants \cup {g}

\* root.join(relative): what is read back is checked as a request would be.
Join(root, parts) == Path(root.abs, root.parts \o parts)
ReadBack(root, g) ==
  LET rel == CleanRelative(Path(FALSE, g.cwd))
  IN  IF ~rel.ok THEN NoGrant
      ELSE FromSpec(root, [program |-> g.program, args |-> g.args,
                           cwd |-> Join(root, rel.parts), env |-> {}])

\* A policy file: "absent", "broken" (not TOML, or not tables where tables
\* belong) or "commands", whose entries may include one the reader refuses.
PolicyFile(kind, grants, bad) == [kind |-> kind, grants |-> grants, bad |-> bad]
NoPolicyFile == PolicyFile("absent", {}, FALSE)

\* One refused entry refuses the file.
PolicyFromDocument(root, file) ==
  IF file.bad \/ \E g \in file.grants : ReadBack(root, g) = NoGrant
  THEN [ok |-> FALSE, grants |-> {}]
  ELSE [ok |-> TRUE, grants |-> {ReadBack(root, g) : g \in file.grants}]
LoadPolicy(root, file) ==
  CASE file.kind = "absent" -> [ok |-> TRUE, grants |-> {}]
    [] file.kind = "broken" -> [ok |-> FALSE, grants |-> {}]
    [] OTHER -> PolicyFromDocument(root, file)

\* The document is read again and only its commands are replaced: with all of
\* them, the refused entry too.
ReplaceCommands(file, grants) == PolicyFile("commands", grants, FALSE)
SavePolicy(file, grants) ==
  IF file.kind = "broken" THEN file ELSE ReplaceCommands(file, grants)
============================================================================
