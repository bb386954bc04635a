------------------------------ MODULE SvmHost ------------------------------
(***************************************************************************)
(* The host program of the filtering algorithm with shared virtual memory: *)
(* the kernels work on the host's tree itself.                             *)
(***************************************************************************)
EXTENDS HostCalls

\* Maps a page of physical memory, or ends the program.
getvaddr == Call("call", "mmap", {}, "exit")

\* enable_f2h_acp and init_svm, as far as they can end the program; without the
\* driver the first writes no register, and main goes on.
Svm_enable(s) ==
  getvaddr \o (IF s.driver THEN Repeat(7, getvaddr) ELSE <<>>) \o Repeat(2, getvaddr)

\* buildkdTree: root leads to the inner nodes, and these to the leaves.
Svm_setup ==
  New("root") \o New("leaves")
    \o Memory("initial_centers") \o Fill("initial_centers")
    \o Each(Memory, <<"visited_nodes", "profiling_data", "new_centers", "distortion">>)

Svm_buffers ==
  Each(LAMBDA b : Object(b, {"context"}),
       <<"initial_centers_buf", "z0_buf", "visited_nodes_buf", "profiling_data_buf",
         "new_centers_buf", "distortion_buf">>)

Svm_write == Write("write_centers", "queue0", "initial_centers_buf", "write_event0", "initial_centers")

Svm_args ==
  Arguments("kernel0", <<{"z0_buf"}, {"root"}, {}, {}, {"initial_centers_buf"},
                         {"visited_nodes_buf"}, {"profiling_data_buf"}>>)
    \o Arguments("kernel1", <<{}, {"new_centers_buf"}, {"distortion_buf"}>>)

\* A mutant: the kernels exchange their queues and nothing waits for the write.
Svm_launch_swapped ==
  Enqueue("filter1", "queue0", {"kernel1"}, {}, "kernel1_event", {})
    \o Enqueue("filter0", "queue1", {"kernel0"}, {}, "kernel0_event", {"root", "leaves"})

Svm_launch ==
  Enqueue("filter1", "queue1", {"kernel1"}, {}, "kernel1_event", {})
    \o Enqueue("filter0", "queue0", {"kernel0"}, {"write_event0"}, "kernel0_event", {"root", "leaves"})

\* A mutant: the reads of queue1 come before those of queue0.
Svm_reads_swapped ==
  Read("read_centers", "queue1", "new_centers_buf", "kernel1_event", "finish_event", "new_centers")
    \o Read("read_distortion", "queue1", "distortion_buf", "kernel1_event", "finish_event", "distortion")
    \o Read("read_visited", "queue0", "visited_nodes_buf", "kernel0_event", "finish_event", "visited_nodes")
    \o Read("read_profiling", "queue0", "profiling_data_buf", "kernel0_event", "finish_event", "profiling_data")

\* One variable receives the events of all four.
Svm_reads ==
  Read("read_visited", "queue0", "visited_nodes_buf", "kernel0_event", "finish_event", "visited_nodes")
    \o Read("read_profiling", "queue0", "profiling_data_buf", "kernel0_event", "finish_event", "profiling_data")
    \o Read("read_centers", "queue1", "new_centers_buf", "kernel1_event", "finish_event", "new_centers")
    \o Read("read_distortion", "queue1", "distortion_buf", "kernel1_event", "finish_event", "distortion")

\* A mutant: only the last read is waited for.
Svm_waits_finish == Wait("finish_event")

Svm_waits == Each(Wait, <<"finish_event", "kernel0_event", "kernel1_event">>)

\* A mutant: the events are released before the kernel's time is asked for.
Svm_report_late ==
  Each(Show, <<"visited_nodes", "new_centers", "distortion", "profiling_data">>)
    \o Each(ReleaseEvent, <<"write_event0", "kernel1_event", "kernel0_event", "finish_event">>)
    \o getStartEndTime("kernel0_event")

Svm_report ==
  Each(Show, <<"visited_nodes", "new_centers", "distortion", "profiling_data">>)
    \o getStartEndTime("kernel0_event")
    \o Each(ReleaseEvent, <<"write_event0", "kernel1_event", "kernel0_event", "finish_event">>)

\* A mutant: one buffer is forgotten.
Svm_cleanup_one_less ==
  Each(Release, <<"kernel0", "queue0", "kernel1", "queue1", "initial_centers_buf",
                  "visited_nodes_buf", "new_centers_buf", "distortion_buf", "z0_buf", "program",
                  "context", "root", "initial_centers", "visited_nodes", "new_centers",
                  "distortion", "profiling_data">>)

\* Releases what there is; deletekdTree frees the inner nodes and no leaf, and
\* cleanup_svm does nothing.
Svm_cleanup ==
  Each(Release, <<"kernel0", "queue0", "kernel1", "queue1", "initial_centers_buf",
                  "visited_nodes_buf", "profiling_data_buf", "new_centers_buf", "distortion_buf",
                  "z0_buf", "program", "context", "root", "initial_centers", "visited_nodes",
                  "new_centers", "distortion", "profiling_data">>)

Svm_main(s) ==
  ReadInputs(s) \o init_opencl(s) \o Svm_enable(s)
    \o Svm_setup \o Svm_buffers \o Svm_write \o Svm_args
    \o Svm_launch \o Svm_reads \o Svm_waits \o Svm_report \o Svm_cleanup
=============================================================================
