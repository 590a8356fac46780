---------------------------- MODULE IvyToolkits -----------------------------
(***************************************************************************)
(* The loops of the toolkits, whose variables are named here so that they  *)
(* can stand beside those of the select loop.  MCIvyLoops checks what is   *)
(* promised here on a small instance; IvyPartsProofs proves RemovedSilent. *)
(***************************************************************************)
EXTENDS Naturals

CONSTANTS Conns, MaxLines

VARIABLES built, cl, src, ifb, fd, opened, peer, handler, del, forgotten, undef

Toolkit == INSTANCE IvyToolkit WITH
  owner <- opened, run <- handler, excepted <- forgotten

(* The handlers that IvyChannelRemove takes back are not called any more,  *)
(* until an exceptional condition has called handle_delete without it.     *)
RemovedSilent == Toolkit!RemovedSilent

(* IvyChannelRemove removes the callbacks of the channel (ivychannel.h):   *)
(* does not hold of the write source of GLib and Xt.                       *)
CallbacksRemoved == Toolkit!CallbacksRemoved

(* A congested connection is emptied, or deleted (ivyglibloop.c).          *)
Drained == Toolkit!Drained
=============================================================================
