---------------------------- MODULE MCForwardConf ----------------------------
(***************************************************************************)
(* Constants for the run of ForwardConf: the forms of lines that a file has. *)
(***************************************************************************)
EXTENDS ForwardConf, TLC

CONSTANTS Scheme, One, Two, Net1, Net2

WordsOfFile == {Hash, Scheme, One, Two, Net1, Net2}
Net == {Net1, Net2}

\* Lines as the sample file has them, and lines without an address, without a
\* colon, and with a word that is no address.
Lines ==
    {<<>>, <<<<Hash>>, <<Scheme>>>>,
     <<<<Scheme, One>>, <<Net1>>>>, <<<<Scheme, Two>>, <<Net2>>>>,
     <<<<Scheme, One>>>>, <<<<Scheme>>, <<Net1>>>>, <<<<Scheme, Two>>, <<One>>>>}
=============================================================================
