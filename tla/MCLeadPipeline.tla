--------------------------- MODULE MCLeadPipeline ---------------------------
(* Two registers that know the same person; the second one knows another.  *)
EXTENDS LeadPipeline, TLC

MCSource == 1 :> "efrsb" @@ 2 :> "fssp" @@ 3 :> "fssp"
MCPerson == 1 :> "p1" @@ 2 :> "p1" @@ 3 :> "p2"
MCChannels == 1 :> 2 @@ 2 :> 0
MCPriority == "efrsb" :> 2 @@ "fssp" :> 3
=============================================================================
