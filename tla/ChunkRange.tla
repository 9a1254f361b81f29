----------------------------- MODULE ChunkRange -----------------------------
(* How the multi-threaded Bluestein solver cuts num items into one          *)
(* contiguous chunk per thread: whole blocks of align items, the first      *)
(* extra_blocks threads taking one block more, the last block clamped.      *)
EXTENDS Integers

Least(a, b) == IF a < b THEN a ELSE b

(* Faulty variant: the leftover blocks go to no thread.                     *)
BlockBeginDropsExtra(tid, blocks_per_thread, extra_blocks) == tid * blocks_per_thread

(* First block of a thread; tid + 1 gives the block after its last.         *)
BlockBegin(tid, blocks_per_thread, extra_blocks) ==
    tid * blocks_per_thread + Least(tid, extra_blocks)

chunk_range(tid, blocks_per_thread, extra_blocks, align, num) ==
    LET first == BlockBegin(tid, blocks_per_thread, extra_blocks) * align
        last == BlockBegin(tid + 1, blocks_per_thread, extra_blocks) * align
    IN  [start |-> Least(first, num), size |-> Least(last, num) - Least(first, num)]

(* Number of blocks, the last one perhaps short.                            *)
NumBlocks(num, align) == (num + align - 1) \div align

(* The chunk of one of the threads of a dispatch.                           *)
Chunk(tid, threads, num, align) ==
    chunk_range(tid, NumBlocks(num, align) \div threads,
                NumBlocks(num, align) % threads, align, num)

Items(c) == c.start .. c.start + c.size - 1
=============================================================================
