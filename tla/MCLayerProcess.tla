--------------------------- MODULE MCLayerProcess ---------------------------
(* Instances of a process with one layer: its environment, files, driver.  *)
EXTENDS LayerProcess

Line(layer, name, value) == [key |-> <<layer, name>>, value |-> value]

\* What a settings file may hold, each place another: settings of both layers,
\* an option twice, an empty and a meaningless value, a line without option.
AtXdg(layer) ==
    <<Line(layer, "transparent", "on"), Line(layer, "log_sink", "stdout"),
      Line(layer, "log_sink", "file"), Line(layer, "log_filename", "log.txt")>>
AtHome(layer) ==
    <<NoOption, Line(layer, "log_sink", "stdout"), Line(layer, "transparent", "true"),
      Line(layer, "log_filename", "locked.txt")>>
AtPath(layer) == <<Line(layer, "log_sink", "file"), Line(layer, "transparent", "")>>
InPath(layer) == <<Line(layer, "transparent", "1"), Line(layer, "log_sink", "syslog")>>
AtCwd(layer) ==
    <<Line("the other layer", "transparent", "on"), Line(layer, "log_sink", "file"),
      Line(layer, "log_filename", "locked.txt")>>

File(lines) == [kind |-> "file", lines |-> lines]
Dir == [kind |-> "dir", lines |-> <<>>]

XdgFile == "/xdg/settings.d/opencl/cl_layer_settings.txt"
HomeFile == "/home/.local/share/cl_layer_settings.txt"

AllFiles(layer) ==
    {<<XdgFile, File(AtXdg(layer))>>, <<HomeFile, File(AtHome(layer))>>,
     <<Default, File(AtCwd(layer))>>, <<"/path", File(AtPath(layer))>>,
     <<"/dir", Dir>>, <<"/dir/cl_layer_settings.txt", File(InPath(layer))>>}

FileSystem(present) ==
    [path \in {f[1] : f \in present} |-> (CHOOSE f \in present : f[1] = path)[2]]

\* The files that exist in one world or another.
FileSystems(layer) ==
    {FileSystem(AllFiles(layer) \ missing) :
        missing \in SUBSET {f \in AllFiles(layer) :
                                f[1] \in {XdgFile, Default, "/dir/cl_layer_settings.txt"}}}
    \cup {FileSystem(AllFiles(layer) \ {f \in AllFiles(layer) : f[1] = HomeFile})}

Options(layer, sink, filename, transparent) ==
    [key \in {layer} \X {"log_sink", "log_filename", "transparent"} |->
        CASE key[2] = "log_sink" -> sink [] key[2] = "log_filename" -> filename
          [] key[2] = "transparent" -> transparent]

NoDriver == [picds |-> <<>>, fails |-> "nothing"]

SettingWorlds ==
    {[layer |-> "object_lifetime",
      env |-> [XDG_DATA_HOME |-> xdg, HOME |-> home, OPENCL_LAYERS_SETTINGS_PATH |-> path,
               option |-> Options("object_lifetime", sink, filename, transparent)],
      fs |-> fs, writable |-> {"log.txt"}, driver |-> NoDriver] :
        xdg \in {NULL, "", "/xdg"}, home \in {NULL, "/home"},
        path \in {NULL, "/path", "/dir", "/nowhere"},
        sink \in {NULL, "file", "syslog"}, filename \in {NULL, "log.txt", ""},
        transparent \in {NULL, "on", "no", "maybe"}, fs \in FileSystems("object_lifetime")}

Picd(pid, ngpus, ncpus, ndevs) == [pid |-> pid, ngpus |-> ngpus, ncpus |-> ncpus, ndevs |-> ndevs]

\* [GPUs, CPUs, all devices] of a platform.
Counted == {<<1, 0, 1>>, <<0, 2, 2>>, <<0, 1, 3>>}

PicdLists ==
    {[n \in 1 .. len |-> Picd(n, counts[n][1], counts[n][2], counts[n][3])] :
        len \in 0 .. 3, counts \in [1 .. 3 -> Counted]}

IcdWorlds ==
    {[layer |-> "ocl_icd_compat",
      env |-> [OCL_ICD_PLATFORM_SORT |-> sort, OCL_ICD_DEFAULT_PLATFORM |-> default],
      driver |-> [picds |-> picds, fails |-> fails]] :
        sort \in {NULL, "none"}, default \in {NULL, NotANumber, -1, 1, 2}, picds \in PicdLists,
        fails \in {"nothing"}}
    \cup
    {[layer |-> "ocl_icd_compat",
      env |-> [OCL_ICD_PLATFORM_SORT |-> NULL, OCL_ICD_DEFAULT_PLATFORM |-> NULL],
      driver |-> [picds |-> <<Picd(1, 1, 0, 1)>>, fails |-> fails]] :
        fails \in {"clGetPlatformIDs", "calloc"}}

VerifyingWorlds ==
    {[layer |-> "param_verification",
      env |-> [XDG_DATA_HOME |-> NULL, HOME |-> NULL, OPENCL_LAYERS_SETTINGS_PATH |-> NULL,
               option |-> Options("param_verification", NULL, NULL, transparent)],
      fs |-> FileSystem({}), writable |-> {},
      driver |-> [picds |-> <<Picd(1, 1, 0, 1), Picd(2, 0, 1, 1)>>, fails |-> "nothing"]] :
        transparent \in {NULL, "on"}}

MCWorlds == SettingWorlds \cup IcdWorlds \cup VerifyingWorlds

Pair(name, value) == [name |-> name, value |-> value]

MCPropertyLists ==
    {NULL, <<>>} \cup
    UNION {[1 .. n -> {Pair("CL_CONTEXT_PLATFORM", 1), Pair("CL_CONTEXT_PLATFORM", 4),
                       Pair("CL_CONTEXT_PLATFORM", NULL),
                       Pair("CL_CONTEXT_INTEROP_USER_SYNC", 1), Pair("unknown", 1)}] : n \in 1 .. 2}

MCPartitions ==
    {[scheme |-> "EQUALLY", param |-> <<n, end>>] : n \in {-1, 0, 1, 2, 3, 4, 16}, end \in {0, 1}}
    \cup {[scheme |-> "BY_AFFINITY_DOMAIN", param |-> <<domain, 0>>] : domain \in {0, 1, 64}}
    \cup {[scheme |-> "BY_COUNTS", param |-> counts \o <<0, end>>] :
            counts \in UNION {[1 .. n -> {-1, 1, 2, 3, 4, 14}] : n \in 0 .. 3}, end \in {0, 1}}
    \cup {[scheme |-> "unknown", param |-> <<1, 0>>]}

MCLimits == {[cu |-> cu, sd |-> sd] : cu \in {1, 4}, sd \in 1 .. 2}

Pitches == [row : 0 .. 3, slice : {0, 2, 3, 4, 6}]

\* The destination has the pitches of the source, or none.
MCRectangles ==
    {[src_origin |-> src_origin, dst_origin |-> dst_origin, region |-> region,
      src |-> src, dst |-> IF same_pitches THEN src ELSE [row |-> 0, slice |-> 0]] :
        src_origin \in (0 .. 2) \X (0 .. 1) \X (0 .. 1), dst_origin \in (0 .. 2) \X (0 .. 1) \X (0 .. 1),
        region \in (1 .. 2) \X (1 .. 2) \X (1 .. 2), src \in Pitches, same_pitches \in BOOLEAN}
    \cup
    {[src_origin |-> origin, dst_origin |-> <<0, 0, 0>>, region |-> region,
      src |-> [row |-> 0, slice |-> 0], dst |-> [row |-> 0, slice |-> 0]] :
        origin \in {NULL, <<0, 0, 0>>}, region \in {NULL, <<1, 0, 1>>}}

MCRanges == [dst : {NULL} \cup 0 .. 4, src : {NULL} \cup 0 .. 4, size : 0 .. 3]

\* A device whose largest group has fewer items than a size_t has values, and
\* one on which the product of the sizes can wrap around.
Devices ==
    {[id |-> 1, max_dimensions |-> 3, max_sizes |-> <<4, 4, 2>>, non_uniform |-> non_uniform] :
        non_uniform \in BOOLEAN}
    \cup {[id |-> 2, max_dimensions |-> 3, max_sizes |-> <<8, 8, 8>>, non_uniform |-> FALSE]}

Queues == [context : {1}, on_device : {FALSE}, device : Devices]

Kernel(context, built, required, sub_groups) ==
    [context |-> context, built |-> built, group_size |-> 4,
     required |-> required, sub_groups |-> sub_groups]

Kernels ==
    {Kernel(1, {1, 2}, required, sub_groups) :
        required \in {<<0, 0, 0>>, <<2, 2, 1>>}, sub_groups \in {0, 2}}

Enqueue(version, queue, kernel, work_dim, offset, global, local, num_events, events) ==
    [version |-> version, queue |-> queue, kernel |-> kernel, work_dim |-> work_dim,
     offset |-> offset, global |-> global, local |-> local,
     num_events |-> num_events, events |-> events]

Versions == {100, 101, 200, 201, 300}
Globals == {NULL, <<4, 4, 2>>, <<4, 0, 2>>, <<3, 2, 1>>}
Locals == {NULL, <<2, 1, 1>>, <<2, 2, 1>>, <<2, 0, 1>>, <<3, 0, 1>>, <<8, 8, 1>>, <<4, 16, 1>>}

\* All sizes; and, for few sizes, all objects and wait lists.
MCEnqueues ==
    {Enqueue(version, queue, kernel, work_dim, offset, global, local, 0, NULL) :
        version \in Versions, queue \in Queues, kernel \in Kernels, work_dim \in {0, 1, 2, 4},
        offset \in {NULL, <<0, 0, 0>>}, global \in Globals, local \in Locals}
    \cup
    {Enqueue(version, queue, kernel, 2, NULL, <<4, 4, 2>>, local, wait[1], wait[2]) :
        version \in {101, 300},
        queue \in Queues \cup {NULL} \cup [context : {1}, on_device : {TRUE}, device : Devices],
        kernel \in Kernels \cup {NULL, Kernel(2, {1}, <<0, 0, 0>>, 0), Kernel(1, {}, <<0, 0, 0>>, 0)},
        local \in {<<2, 2, 1>>, <<3, 1, 1>>},
        wait \in {<<0, NULL>>, <<1, NULL>>, <<0, <<>>>>, <<1, <<1>>>>, <<2, <<1, 2>>>>, <<2, <<1, NULL>>>>}}

Buffer(associated, flags) ==
    [type |-> "BUFFER", associated |-> associated, flags |-> flags, size |-> 16, aligns |-> {8, 32}]

KernelAccess == {"READ_WRITE", "READ_ONLY", "WRITE_ONLY"}
HostAccess == {"HOST_READ_ONLY", "HOST_WRITE_ONLY", "HOST_NO_ACCESS"}
OneOf(kernel, host) == {k \cup h : k \in {{}} \cup {{f} : f \in kernel}, h \in {{}} \cup {{f} : f \in host}}

MCSubBuffers ==
    [buffer : {Buffer(FALSE, flags) : flags \in OneOf(KernelAccess, HostAccess)},
     flags : {k \cup h : k \in SUBSET KernelAccess, h \in SUBSET HostAccess} \cup {{"USE_HOST_PTR"}},
     type : {"REGION"}, region : {[origin |-> 8, size |-> 8]}]
    \cup
    [buffer : {NULL, Buffer(TRUE, {}), Buffer(FALSE, {}),
               [type |-> "IMAGE2D", associated |-> FALSE, flags |-> {}, size |-> 16, aligns |-> {8}]},
     flags : {{}}, type : {"REGION", "unknown"},
     region : [origin : {0, 4, 8, 16, 32, 56}, size : {0, 1, 8, 9, 16, 60}] \cup {NULL}]
=============================================================================
