----------------------------- MODULE NoSvmHost -----------------------------
(***************************************************************************)
(* The host program of the filtering algorithm without shared virtual      *)
(* memory: the tree is copied to the device.  (SHARED_PHYSICAL_MEMORY is   *)
(* not defined.)                                                           *)
(***************************************************************************)
EXTENDS HostCalls

\* The same text as in the other program.
NoSvm_init_opencl(s) == init_opencl(s)

NoSvm_setup ==
  Memory("tree_memory") \o Fill("tree_memory")
    \o Memory("initial_centers") \o Fill("initial_centers")
    \o Each(Memory, <<"visited_nodes", "new_centers", "distortion">>)

NoSvm_buffers ==
  Each(LAMBDA b : Object(b, {"context"}),
       <<"initial_centers_buf", "tree_memory_buf", "visited_nodes_buf", "new_centers_buf",
         "distortion_buf">>)

\* A mutant: the second event goes behind the array of two.
NoSvm_writes_past_end ==
  Write("write_tree", "queue0", "tree_memory_buf", "write_event1", "tree_memory")
    \o Write("write_centers", "queue0", "initial_centers_buf", "write_event2", "initial_centers")

NoSvm_writes ==
  Write("write_tree", "queue0", "tree_memory_buf", "write_event0", "tree_memory")
    \o Write("write_centers", "queue0", "initial_centers_buf", "write_event1", "initial_centers")

NoSvm_args ==
  Arguments("kernel0", <<{}, {}, {"tree_memory_buf"}, {"initial_centers_buf"}, {"visited_nodes_buf"}>>)
    \o Arguments("kernel1", <<{}, {"new_centers_buf"}, {"distortion_buf"}>>)

\* A mutant: both kernels go to one queue.
NoSvm_launch_one_queue ==
  Enqueue("filter1", "queue0", {"kernel1"}, {}, "kernel1_event", {})
    \o Enqueue("filter0", "queue0", {"kernel0"}, {"write_event0", "write_event1"}, "kernel0_event", {})

NoSvm_launch ==
  Enqueue("filter1", "queue1", {"kernel1"}, {}, "kernel1_event", {})
    \o Enqueue("filter0", "queue0", {"kernel0"}, {"write_event0", "write_event1"}, "kernel0_event", {})

NoSvm_readout ==
  Read("read_visited", "queue0", "visited_nodes_buf", "kernel0_event", "finish_event", "visited_nodes")
    \o Read("read_centers", "queue1", "new_centers_buf", "kernel1_event", "finish_event", "new_centers")
    \o Read("read_distortion", "queue1", "distortion_buf", "kernel1_event", "finish_event", "distortion")
    \o Each(Wait, <<"finish_event", "kernel0_event", "kernel1_event">>)

NoSvm_report ==
  Each(Show, <<"visited_nodes", "new_centers", "distortion">>)
    \o getStartEndTime("kernel0_event")
    \o Each(ReleaseEvent, <<"write_event0", "write_event1", "kernel1_event", "kernel0_event",
                            "finish_event">>)

NoSvm_cleanup ==
  Each(Release, <<"kernel0", "queue0", "kernel1", "queue1", "tree_memory_buf", "initial_centers_buf",
                  "visited_nodes_buf", "new_centers_buf", "distortion_buf", "program", "context",
                  "tree_memory", "initial_centers", "visited_nodes", "new_centers", "distortion">>)

NoSvm_main(s) ==
  ReadInputs(s) \o NoSvm_init_opencl(s)
    \o NoSvm_setup \o NoSvm_buffers \o NoSvm_writes \o NoSvm_args
    \o NoSvm_launch \o NoSvm_readout \o NoSvm_report \o NoSvm_cleanup
=============================================================================
