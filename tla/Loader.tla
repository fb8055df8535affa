------------------------------- MODULE Loader -------------------------------
(***************************************************************************)
(* What stands between a program's name and its first instruction: the     *)
(* search of kernel/process.rs, the image formats of shell/programs.rs,    *)
(* the linker of kernel/dynamic_linker.rs, and the files that              *)
(* kernel/package_image.rs installs.  All are functions of the files, a    *)
(* function from paths (sequences of names) to contents.                   *)
(*                                                                         *)
(* A content has a kind: Dir, Text, Stub (what cc writes), So (a shared    *)
(* library), Bin (a SAIOS_BIN_V1 image) or Elf.  Texts are abstracted to   *)
(* what their parsers find in them.                                        *)
(***************************************************************************)
EXTENDS Naturals, Sequences, FiniteSetsExt

CONSTANTS
  None,
  BuiltIns,    \* entries execute_entry knows
  Package      \* what mount_default installs, in order: <<path, content>>

\* An image names the libraries it needs.
IsContent(content) == content.kind \in {"Elf", "Bin"} => content.needed \in Seq(STRING)

ASSUME LoaderAssumption ==
  /\ Package \in Seq(Seq(STRING) \X {Package[i][2] : i \in DOMAIN Package})
  /\ \A i \in DOMAIN Package : IsContent(Package[i][2])

DefaultInterpreter == <<"lib", "ld-saios.so">>

\* A name without a slash is looked for in the root and in /bin.
candidate_program_paths(name) ==
  IF name.bare THEN <<name.parts, <<"bin">> \o name.parts>> ELSE <<name.parts>>

path_basename(path) == path[Len(path)]

\* The index of the first candidate that can be opened, 0 when there is none.
FirstOf(files, candidates) == 
  LET found == {i \in DOMAIN candidates : candidates[i] \in DOMAIN files}
  IN  IF found # {} THEN Min(found) ELSE 0

resolve_program_name(files, name) ==
  LET found == FirstOf(files, candidate_program_paths(name))
  IN  IF found = 0 THEN None ELSE candidate_program_paths(name)[found]

\* An ELF image is dispatched by its file name and names no symbols; a
\* SAIOS_BIN_V1 image must name its entry.
binary_metadata(files, path) ==
  LET f == files[path]
  IN  CASE f.kind = "Elf" -> [entry |-> path_basename(path), dynamic |-> f.dynamic, interpreter |-> f.interpreter,
                              needed |-> f.needed, required |-> {}]
        [] f.kind = "Bin" /\ f.entry # None ->
             [entry |-> f.entry, dynamic |-> f.dynamic, interpreter |-> f.interpreter,
              needed |-> f.needed, required |-> f.required]
        [] OTHER -> None

\* The second place before the first.
library_paths_last(name) == <<<<"usr", "lib", name>>, <<"lib", name>>>>

library_paths(name) == <<<<"lib", name>>, <<"usr", "lib", name>>>>

parse_library(files, path) ==
  LET f == files[path] IN IF f.kind = "So" /\ f.soname # None THEN f ELSE None

\* One turn of link_image's loop: the first library that is missing or
\* damaged ends it.
AddLibrary(files, sofar, name) ==
  LET Add(at) == IF ~sofar.ok \/ at = 0 \/ parse_library(files, library_paths(name)[at]) = None
                 THEN [sofar EXCEPT !.ok = FALSE]
                 ELSE [sofar EXCEPT !.exported = @ \union files[library_paths(name)[at]].exports]
  IN  Add(FirstOf(files, library_paths(name)))

Linked(files, needed) ==
  LET after[n \in 0 .. Len(needed)] ==
        IF n = 0 THEN [ok |-> TRUE, exported |-> {}]
        ELSE AddLibrary(files, after[n - 1], needed[n])
  IN  after

\* Whether the image links; what the report says of it is only printed.
link_image(files, meta) ==
  LET interpreter == IF meta.interpreter = None THEN DefaultInterpreter ELSE meta.interpreter
      Loaded(libraries) == libraries.ok /\ meta.required \subseteq libraries.exported
  IN  meta.dynamic => /\ interpreter \in DOMAIN files
                      /\ Loaded(Linked(files, meta.needed)[Len(meta.needed)])

\* What spawn makes of the image: nothing is linked without metadata.
Links(files, path) ==
  LET meta == binary_metadata(files, path)
  IN  meta # None => link_image(files, meta)

\* The program that runs: a compiled stub's, the image's entry, or, when the
\* image has no metadata, the one named like the file; None when there is no
\* such program.
execute_path(files, path) ==
  LET meta  == binary_metadata(files, path)
      entry == IF meta = None THEN path_basename(path) ELSE meta.entry
  IN  IF files[path].kind = "Stub" THEN "stub"
      ELSE IF entry \in BuiltIns THEN entry ELSE None

Written(files, path, content) ==
  [p \in DOMAIN files \union {path} |-> IF p = path THEN content ELSE files[p]]

\* mount_default writes the files one after the other and stops at the first
\* that cannot be written, a directory.
Install(r, entry) ==
  IF ~r.ok \/ (entry[1] \in DOMAIN r.files /\ r.files[entry[1]].kind = "Dir") THEN [r EXCEPT !.ok = FALSE]
  ELSE [r EXCEPT !.files = Written(@, entry[1], entry[2])]

Installed(files) ==
  LET after[n \in 0 .. Len(Package)] ==
        IF n = 0 THEN [ok |-> TRUE, files |-> files] ELSE Install(after[n - 1], Package[n])
  IN  after

mount_default(files) == Installed(files)[Len(Package)]
=============================================================================
