------------------------------ MODULE MCProcess ------------------------------
(***************************************************************************)
(* A package with a static program, a dynamic one that needs a library and *)
(* requires a symbol of it, the library and the interpreter.               *)
(***************************************************************************)
EXTENDS Process

Library(exports) == [kind |-> "So", soname |-> "libc.so", exports |-> exports]
Static == [kind |-> "Elf", dynamic |-> FALSE, interpreter |-> None, needed |-> <<>>]
Dynamic == [kind |-> "Bin", entry |-> "calc", dynamic |-> TRUE, interpreter |-> None,
            needed |-> <<"libc.so">>, required |-> {"malloc"}]

MCPackage == <<<<DefaultInterpreter, Library({})>>, <<<<"lib", "libc.so">>, Library({"malloc"})>>,
               <<<<"bin", "calc">>, Static>>, <<<<"bin", "x">>, Dynamic>>>>

Bare(name) == [bare |-> TRUE, parts |-> <<name>>]
MCInitScript == [bare |-> FALSE, parts |-> <<"system", "init">>]

\* A library that is gone, or lost its symbol or its format, another one in
\* the second place, a stub before the program, a removed interpreter or script,
\* and a directory where the library was.
Edits == {<<<<"lib", "libc.so">>, None>>, <<<<"lib", "libc.so">>, Library({"free"})>>,
          <<<<"lib", "libc.so">>, [kind |-> "Text"]>>, <<<<"usr", "lib", "libc.so">>, Library({"malloc"})>>,
          <<<<"x">>, [kind |-> "Stub"]>>, <<DefaultInterpreter, None>>, <<<<"bin", "x">>, None>>,
          <<<<"lib", "libc.so">>, [kind |-> "Dir"]>>, <<MCInitScript.parts, None>>}

\* Four processes among many events, and images that change under the loader.
MCSessions ==
  {[commands |-> {Bare("calc")}, edits |-> {}, processes |-> 4, published |-> 7, edited |-> 0],
   [commands |-> {Bare("x")}, edits |-> Edits, processes |-> 3, published |-> 5, edited |-> 2]}
==============================================================================
