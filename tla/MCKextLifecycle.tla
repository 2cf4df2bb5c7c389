-------------------------- MODULE MCKextLifecycle --------------------------
(* TLC's instances of KextLifecycle.                                       *)
EXTENDS KextLifecycle, TLC

Device    == <<"host", "/fs">>
Directory == <<"/directory">>
Tool      == <<"fs">>

\* The lists of LFSMountTestCase.m:33-48, and some at the edge of what is accepted.
MCArguments == {
  <<Tool, Device, Directory>>,
  <<Tool, <<"host", "host", "/fs">>, Directory>>,
  <<Tool, <<"host", "host", "host", "/fs">>, Directory>>,
  <<Tool, <<"-o">>, <<"fs">>, <<"host", "host", "host", "/fs">>, Directory>>,
  <<Tool, <<"-o">>, <<"fs">>, Device, Directory>>,
  <<Tool, Device, <<"/missing">>>>,
  <<Tool>>,
  <<>>,
  <<Tool, Device>>,
  <<Tool, Directory>>,
  <<Tool, <<"host">>, Directory>>,
  <<Tool, <<"/fs">>, Directory>>,
  <<Tool, <<"unknown">>, Directory>>,
  <<Tool, <<"unknown", "host", "/fs">>, Directory>>,
  <<Tool, <<"host", "unknown", "/fs">>, Directory>>,
  <<Tool, <<"host", "fs">>, Directory>>,
  <<Tool, Device, <<"/file">>>>,
  <<Tool, Device, <<"fs">>, <<"fs">>, Directory>>,
  <<Tool, Device, <<"fs">>, <<"fs">>, <<"fs">>, Directory>>,
  <<Tool, <<"-o">>, Directory>>,
  <<Tool, <<"-o">>, <<"fs">>, Device>>}
=============================================================================
