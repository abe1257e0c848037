---------------------------- MODULE MC_Workbench ----------------------------
EXTENDS Workbench, DocumentLaws

(* Documents that are saved as they are, trimmed into CR LF, and with CR.  *)
Saving(trim, newline, eol) == [trim |-> trim, newline |-> newline, eol |-> eol]
MCDocuments ==
  { [text |-> <<97, CR, LF, 123>>, settings |-> Saving(FALSE, FALSE, "none")],
    [text |-> <<98, SPACE, LF>>,   settings |-> Saving(TRUE, TRUE, "crlf")],
    [text |-> <<97, CR>>,          settings |-> Saving(TRUE, FALSE, "cr")] }

(* Names of macros are only compared.                                      *)
NameSymmetry == Permutations(Names)

(* The long names of the paths 1 and 2 have the same 80 characters.        *)
MCSafeName == [key \in -MaxId .. 2 |-> IF key > 0 THEN MaxId + 1 ELSE MaxId + key]

(* Directories a and ab, with something called a in each.                  *)
NameA  == <<97>>
NameAB == <<97, 98>>
MCDisk == [path \in {<<NameA>>, <<NameA, NameA>>, <<NameAB>>, <<NameAB, NameA>>} |->
             IF path = <<NameAB, NameA>> THEN "file" ELSE "directory"]
MCTypedNames == {NameAB, <<46, 46>>}
MCExcluded == {<<99>>}

MCBuiltins == <<Language("plain-text", {".txt"}), Language("cpp", {".cpp"})>>

(* The texts of paths are compared as their names are.                     *)
ASSUME WithinIsByNames ==
  \A path \in DOMAIN MCDisk, root \in DOMAIN MCDisk :
    IsWithinWorkspaceRoots(path, <<root>>) = IsPrefix(root, path)
=============================================================================
