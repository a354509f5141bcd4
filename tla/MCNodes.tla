------------------------------ MODULE MCNodes -------------------------------
(*****************************************************************************)
(* Safety of storage and of what runs on the hosts, each part on a small     *)
(* instance.                                                                 *)
(* The parts share no state here, so a behaviour is about one of them: part  *)
(* says which, and the variables of the others keep their initial values.    *)
(* The state spaces add up instead of multiplying.                           *)
(*****************************************************************************)
EXTENDS ThinVolumes, DirVolumes, DeviceSet, BackupStreams, StateNodes,
        VirtualIPs, ContainerController, InternalServices,
        ContainerEndpoints, DelegateStart

VARIABLE part   \* the part that this behaviour is about

MCStartGroup == [s \in IServices |-> IF s = "kibana" THEN 1 ELSE 0]
MCTenants == <<"t1", "t2">>

Parts == {"thin", "dirs", "devices", "backups", "states", "virtual ips",
          "controller", "internal", "imports", "delegates"}

Init ==
    /\ part \in Parts
    /\ thinInit
    /\ dirInit
    /\ dmInit
    /\ bkInit
    /\ nodesInit
    /\ vipInit
    /\ ccInit
    /\ isvcInit
    /\ ceInit
    /\ dgInit
    /\ part # "dirs" => driver = "rsync"
    /\ part # "backups" => archive = NoFile
    /\ part # "imports" => ceBind = "import" /\ ceOwn = {}

StandStill ==
    /\ UNCHANGED part
    /\ part # "thin" => UNCHANGED thinVars
    /\ part # "dirs" => UNCHANGED dirVars
    /\ part # "devices" => UNCHANGED dmVars
    /\ part # "backups" => UNCHANGED bkVars
    /\ part # "states" => UNCHANGED nodesVars
    /\ part # "virtual ips" => UNCHANGED vipVars
    /\ part # "controller" => UNCHANGED ccVars
    /\ part # "internal" => UNCHANGED isvcVars
    /\ part # "imports" => UNCHANGED ceVars
    /\ part # "delegates" => UNCHANGED dgVars

Next ==
    /\ \/ part = "thin" /\ thinNext
       \/ part = "dirs" /\ dirNext
       \/ part = "devices" /\ dmNext
       \/ part = "backups" /\ bkNext
       \/ part = "states" /\ nodesNext
       \/ part = "virtual ips" /\ vipNext
       \/ part = "controller" /\ ccNext
       \/ part = "internal" /\ isvcNext
       \/ part = "imports" /\ ceNext
       \/ part = "delegates" /\ dgNext
    /\ StandStill

vars == <<part, thinVars, dirVars, dmVars, bkVars, nodesVars, vipVars, ccVars, isvcVars, ceVars, dgVars>>

Spec ==
    /\ Init /\ [][Next]_vars

=============================================================================
