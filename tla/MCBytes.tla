------------------------------- MODULE MCBytes -------------------------------
(***************************************************************************)
(* The parts below the sessions, in one state machine: the buffer bytes    *)
(* are received into, and the parsers and services that read them          *)
(* (MCParsers).  The buffer works before any text is fed; a text is fed    *)
(* beside one blank buffer, since no parser looks into it.                 *)
(***************************************************************************)
EXTENDS MCParsers, Buffer

blank == data = [i \in 0..(Size - 1) |-> CHOOSE o \in Octets : TRUE] /\ read = 0 /\ write = 0

unfed == kind = "multiline" /\ text = <<>> /\ reply = <<>> /\ mail = <<>>

BytesInit == MCInit /\ buffer_init

BytesNext ==
  \/ blank /\ MCNext /\ UNCHANGED bufferVars
  \/ unfed /\ BufferNext /\ UNCHANGED <<vars, reply, mail>>

BytesSpec == BytesInit /\ [][BytesNext]_<<vars, reply, mail, bufferVars>>
==============================================================================
