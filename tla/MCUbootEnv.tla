------------------------------- MODULE MCUbootEnv -------------------------------
(* Flash images for TLC.                                                     *)
EXTENDS UbootEnv

Spec2(b, e) == <<[name |-> "boot", size |-> b], [name |-> "env", size |-> e]>>
E(id, keys, core, score, specs) ==
  [id |-> id, keys |-> keys, core |-> core, score |-> score, specs |-> specs]

L(start, boot, env, header, order, code, decoy) ==
  [start |-> start, boot |-> boot, env |-> env, header |-> header, order |-> order,
   code |-> code, decoy |-> decoy]
SomeLayouts ==
  {L(0, 2, 1, 4, "little", 2, 0), L(0, 2, 1, 4, "big", 2, 0), L(1, 2, 1, 5, "little", 1, 0),
   L(0, 3, 2, 4, "little", 3, 0), L(0, 3, 2, 5, "big", 1, 3), L(0, 3, 2, 5, "little", 1, 2)}

\* with no mtdparts: the default, a short one, a rich one
PlainEnvs == {E("default", 6, 5, 4, <<>>), E("short", 1, 1, 1, <<>>), E("rich", 8, 6, 6, <<>>)}
PartsEnvs == UNION {{E("default", 6, 5, 5, <<Spec2(b[1], b[2])>>),
                     E("rich", 8, 6, 6, <<<<[name |-> "boot", size |-> None]>>, Spec2(b[1], b[2])>>)}
                    : b \in {<<2, 1>>, <<3, 2>>}}
SomeEnvs == PlainEnvs \cup PartsEnvs
===============================================================================
