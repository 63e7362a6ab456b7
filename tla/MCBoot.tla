------------------------------- MODULE MCBoot -------------------------------
(***************************************************************************)
(* Boot with a virtio machine: a PCI transport whose child device needs a  *)
(* driver of its own, ext4 with a hard and an aliased soft dependency, a   *)
(* root disk and a cloud-init drive behind the block driver.               *)
(***************************************************************************)
EXTENDS Boot

MCDeps ==
    [virtio_pci |-> << >>, virtio_blk |-> << >>, ext4 |-> <<"jbd2">>,
     jbd2 |-> << >>, crc32c_generic |-> << >>]

MCTree(deps, bad) ==
    [deps |-> deps,
     soft |-> [m \in DOMAIN deps |-> IF m = "ext4" THEN <<"crc32c">> ELSE << >>],
     alias |-> [crc32c |-> "crc32c_generic", gone |-> "not_shipped"],
     patterns |-> << [device |-> "pci", module |-> "virtio_pci"],
                     [device |-> "pci", module |-> "crc32c"],
                     [device |-> "virtio", module |-> "virtio_blk"],
                     [device |-> "virtio", module |-> "virtio_pci"] >>,
     bad |-> bad]

\* A good tree, one with a module that cannot be loaded, and one with a cycle.
MCTrees ==
    { MCTree(MCDeps, {}), MCTree(MCDeps, {"jbd2"}),
      MCTree([MCDeps EXCEPT !["jbd2"] = <<"ext4">>], {}) }

MCNoTree == [deps |-> << >>]

MCDevices == << "pci", "virtio" >>
MCParent == [pci |-> "none", virtio |-> "virtio_pci"]
MCNames == << "ext4", "gone", "jbd2" >>

MCTok(k, v) == [key |-> k, value |-> v]

MCCmdlines ==
    { << MCTok("data", "auto"), MCTok("ip", "dhcp"), MCTok("hostname", "") >>,
      << MCTok("root", "none"), MCTok("ip", "two"), MCTok("dns", "1.1.1.1"),
         MCTok("modules", "") >>,
      << MCTok("root", "/dev/vda"), MCTok("modules", "none"), MCTok("exec", "sh") >> }

MCIpForms ==
    [dhcp |-> [bare |-> TRUE, specs |-> << [name |-> "", addr |-> "dhcp"] >>],
     two |-> [bare |-> FALSE,
              specs |-> << [name |-> "eth0", addr |-> "dhcp"],
                           [name |-> "eth1", addr |-> ""],
                           [name |-> "eth1", addr |-> "10.10.0.11/24"] >>]]

MCBlockDevs == {"vda", "sr0"}
MCLabelOf == [vda |-> "k0smos", sr0 |-> "cidata"]
MCDriverOf == [vda |-> "virtio_blk", sr0 |-> "virtio_pci"]

MCRun(form, argv) == [form |-> form, argv |-> argv]
MCMeta(local, h, n) == [kind |-> "yaml", local |-> local, hostname |-> h, name |-> n]

\* A worker that replaces a controller, with files on every kind of volume.
MCWorker ==
    [kind |-> "yaml",
     machine |-> [NoMachine EXCEPT !.ip = "two", !.iface = "eth1"],
     files |-> << [path |-> "/etc/k0s/token", decodes |-> TRUE],
                  [path |-> "/var/lib/k0s/a", decodes |-> FALSE],
                  [path |-> "/var/lib/k0s/a", decodes |-> TRUE],
                  [path |-> "", decodes |-> TRUE] >>,
     runcmd |-> << MCRun("list", <<"/usr/bin/k0s", "install", "controller", "--env=A">>),
                   MCRun("plain", <<"k0s", "install", "worker", "--force", "-e",
                                    "K=V", "--token", "--env=B", "--env">>),
                   MCRun("plain", <<"k0s", "start">>),
                   MCRun("shell", <<"k0s", "install", "other">>) >>]

\* File actions, what is dropped and what is not understood.
MCActions ==
    [kind |-> "yaml", machine |-> NoMachine, files |-> << >>,
     runcmd |-> << MCRun("list", <<"mkdir", "-p", "/var/lib/k0s/a">>),
                   MCRun("list", <<"chmod", "0600", "/etc/k0s/token">>),
                   MCRun("list", <<"chmod", "u+x", "/etc/k0s/token">>),
                   MCRun("list", <<"chown", "root", "/etc/k0s/token">>),
                   MCRun("list", <<"ln", "-sf", "/bin/x", "/etc/k0s/token">>),
                   MCRun("list", <<"systemctl", "start", "k0s">>),
                   MCRun("list", << >>), MCRun("type", <<"x">>) >>]

MCDoc(k) == [kind |-> k]

MCFile(n, d) == [f \in {n} |-> d]

MCDrives ==
    { MCFile("user-data", MCWorker) @@ MCFile("meta-data", MCMeta("w1", "h", "")),
      MCFile("user-data", MCWorker) @@ MCFile("meta-data", MCDoc("bad")),
      MCFile("user-data", MCDoc("bad")) @@ MCFile("meta-data", MCMeta("", "", "n")),
      MCFile("user-data", MCDoc("unreadable"))
         @@ MCFile("openstack/latest/user_data", MCActions)
         @@ MCFile("openstack/latest/meta_data.json", MCMeta("", "", "n")),
      MCFile("user-data", MCDoc("other")) }

MCDirOf ==
    [p \in {"/etc/k0s/token", "/var/lib/k0s/a"} |->
        IF p = "/etc/k0s/token" THEN "/etc" ELSE "/var"]

MCBase == [w \in {"/usr/bin/k0s"} |-> "k0s"]
MCEnvEq == [w \in {"--env=A", "--env=B"} |-> IF w = "--env=A" THEN "A" ELSE "B"]
MCDashed == {"-p", "-sf"}
MCLeaseDNS == {"", "10.0.2.3"}
=============================================================================
